---- MODULE Spec2Model ----
(***************************************************************************)
(* Ticket dashboard: the aggregation and reconciliation pipeline of the    *)
(* Express backend (src/unnamed/part_003) and of the React tables          *)
(* (src/unnamed/part_001, src/unnamed/part_000, src/frontend/...).         *)
(*                                                                         *)
(* Conventions of the model                                                *)
(*   - a timestamp is a number of half seconds since 2023-01-01T00:00:00   *)
(*     local time; 0 stands for an absent (falsy) field and NaT for a      *)
(*     string Date cannot parse;                                           *)
(*   - a number of hours with two decimals (toFixed(2)) is kept as         *)
(*     hundredths of an hour;                                              *)
(*   - a nullable computed number is <<>> (null) or <<n>>;                 *)
(*   - a text is a sequence of one-character strings.                      *)
(* Each group of variables belongs to one handler family; a specification  *)
(* runs one family and leaves the other groups idle.                       *)
(***************************************************************************)
EXTENDS Integers, Sequences, FiniteSets, TLC

VARIABLES
    zohoActive,     \* what GET /tickets returns (upstream)
    zohoArchived,   \* what GET /tickets/archivedTickets returns (upstream)
    archRows,       \* rows of the last /api/archived-tickets response
    archivedCache,  \* archivedCache[cacheKey].rows
    reRows,         \* the response rows reconciled once more
    rpc,            \* position of the /api/archived-tickets run
    metricsRows,    \* AgentTicketAgeTable prop metricsRows
    archivedRows,   \* AgentTicketAgeTable prop archivedRows
    selectedAgentNames, \* AgentTicketAgeTable prop selectedAgentNames
    searchTerm,     \* useState searchTerm
    startDate,      \* useState startDate (a day number, 0 for "")
    endDate,        \* useState endDate (a day number, 0 for "")
    metricsPage,    \* useState metricsPage
    archivedPage,   \* useState archivedPage
    yearlyRequest,  \* req.query of the last /api/tickets-yearly-summary run
    yearlyResponse, \* its response: year -> {created, resolved}
    perfRequest,    \* req.query of the last /api/agent-performance run
    perfAllTickets, \* its local allTickets after the filters
    perfResponse,   \* its response: {agents, summary}
    clock,          \* Date.now()
    requests,       \* the HTTP requests of the cached routes, by request id
    assigneeCachePayload,
    assigneeCacheTime,
    assigneeInFlightPromise, \* 0 for null, or the request that runs the promise
    cachedActiveTickets,
    metricsCachePayload,
    metricsCacheTime,
    metricsInFlightPromise,
    agentIdToName,  \* the module-level map from agent id to name
    departmentsCachePayload,
    departmentsCacheTime,
    departmentsInFlightPromise,
    deptTicketCachePayload,
    deptTicketCacheTime,
    deptTicketInFlightPromise,
    deptMembersCachePayload,    \* the three maps keyed by department id
    deptMembersCacheTime,
    deptMembersInFlightPromise,
    limiterJobs,        \* the jobs handed to limiter.schedule, in order
    limiterSinceLaunch, \* milliseconds since the limiter last started a job,
                        \* counted up to minTime, -1 when it started none
    fetchPc,            \* position of the fetchAllArchivedTickets call
    from,               \* its page offset
    allTicketsLength,   \* the number of tickets in its allTickets
    pageRequests,       \* the page requests it has issued
    largestBatch        \* the longest page the upstream has returned to it

reconVars == <<zohoActive, zohoArchived, archRows, archivedCache, reRows, rpc>>

tableVars == <<metricsRows, archivedRows, selectedAgentNames, searchTerm,
               startDate, endDate, metricsPage, archivedPage>>

routeVars == <<yearlyRequest, yearlyResponse, perfRequest, perfAllTickets,
               perfResponse>>

\* the caches of the departments, department ticket counts and department
\* members routes
deptCacheVars == <<departmentsCachePayload, departmentsCacheTime,
                   departmentsInFlightPromise, deptTicketCachePayload,
                   deptTicketCacheTime, deptTicketInFlightPromise,
                   deptMembersCachePayload, deptMembersCacheTime,
                   deptMembersInFlightPromise>>

\* the Bottleneck limiter and the requests axios has in flight through it
limiterVars == <<limiterJobs, limiterSinceLaunch>>

\* one call of fetchAllArchivedTickets for one department
pagingVars == <<fetchPc, from, allTicketsLength, pageRequests, largestBatch>>

serverVars == <<clock, requests, assigneeCachePayload, assigneeCacheTime,
                assigneeInFlightPromise, cachedActiveTickets,
                metricsCachePayload, metricsCacheTime, metricsInFlightPromise,
                agentIdToName, deptCacheVars, limiterVars, pagingVars>>

vars == <<reconVars, tableVars, routeVars, serverVars>>

\* ------------------------------------------------------------------ bounds
MaxTickets == 3

\* the tables page by 200 (metrics) and 500 (archived) rows; the model pages
\* the same way over a handful of rows
MetricsPageSize == 2

ArchivedPageSize == 2

MaxNameLen == 3

MaxNumberLen == 2

MaxQueryLen == 2

\* HTTP requests that reach the cached routes
MaxRequests == 3

\* steps of four minutes the clock takes
MaxClockSteps == 2

\* ---------------------------------------------------------------- helpers
NaT == -1

Null == <<>>

ToLowerCase(s) ==
    CASE s = "Closed" -> "closed"
      [] s = "Open" -> "open"
      [] s = "On Hold" -> "on hold"
      [] s = "In Progress" -> "in progress"
      [] s = "Escalated" -> "escalated"
      [] s = "Resolved" -> "resolved"
      [] s = "Archived" -> "archived"
      [] s = "Completed" -> "completed"
      [] OTHER -> s

\* new Date(x).getTime(): NaN for an unparsable string
IsValidDate(t) == t > 0

TicksPerHour == 2 * 3600

TicksPerDay == 24 * TicksPerHour

\* Date.now() when the server starts: 2025-03-11T00:00:00
ServerStart == 800 * TicksPerDay

\* Math.round(n / d) for n >= 0, d > 0
RoundDiv(n, d) == (2 * n + d) \div (2 * d)

SeqToSet(s) == {s[i] : i \in 1..Len(s)}

\* ------------------------------------------------------------------ texts
LowerChar(c) ==
    CASE c = "A" -> "a" [] c = "B" -> "b" [] c = "C" -> "c" [] c = "D" -> "d"
      [] c = "E" -> "e" [] c = "I" -> "i" [] c = "J" -> "j" [] c = "L" -> "l"
      [] c = "N" -> "n" [] c = "O" -> "o" [] c = "P" -> "p" [] c = "T" -> "t"
      [] OTHER -> c

toLowerCase(text) == [i \in 1..Len(text) |-> LowerChar(text[i])]

IsDigit(c) == c \in {"0", "1", "2", "3", "4", "5", "6", "7", "8", "9"}

IsSpace(c) == c = " "

RECURSIVE trimStart(_)
trimStart(text) ==
    IF text # <<>> /\ IsSpace(Head(text)) THEN trimStart(Tail(text)) ELSE text

RECURSIVE trimEnd(_)
trimEnd(text) ==
    IF text # <<>> /\ IsSpace(text[Len(text)])
    THEN trimEnd(SubSeq(text, 1, Len(text) - 1)) ELSE text

trim(text) == trimEnd(trimStart(text))

startsWith(text, q) == Len(q) <= Len(text) /\ SubSeq(text, 1, Len(q)) = q

includes(text, q) ==
    \E i \in 0..Len(text) :
        i + Len(q) <= Len(text) /\ SubSeq(text, i + 1, i + Len(q)) = q

\* /^\d+$/.test(q)
IsNumericQuery(q) == q # <<>> /\ \A i \in 1..Len(q) : IsDigit(q[i])

\* text.split(/\s+/).filter(Boolean): the maximal runs of non-space characters
RECURSIVE SplitWordsFrom(_, _)
SplitWordsFrom(text, word) ==
    IF text = <<>> THEN (IF word = <<>> THEN <<>> ELSE <<word>>)
    ELSE IF IsSpace(Head(text))
         THEN (IF word = <<>> THEN <<>> ELSE <<word>>) \o SplitWordsFrom(Tail(text), <<>>)
         ELSE SplitWordsFrom(Tail(text), Append(word, Head(text)))

SplitWords(text) == SplitWordsFrom(text, <<>>)

\* collation order of the characters the model uses: space, digits, letters
CharRank(c) ==
    CASE c = " " -> 0 [] c = "-" -> 1
      [] c = "0" -> 10 [] c = "1" -> 11 [] c = "2" -> 12 [] c = "3" -> 13
      [] c = "4" -> 14 [] c = "5" -> 15 [] c = "6" -> 16 [] c = "7" -> 17
      [] c = "8" -> 18 [] c = "9" -> 19
      [] c = "a" -> 30 [] c = "b" -> 31 [] c = "c" -> 32 [] c = "d" -> 33
      [] c = "e" -> 34 [] c = "i" -> 35 [] c = "j" -> 36 [] c = "l" -> 37
      [] c = "n" -> 38 [] c = "o" -> 39 [] c = "p" -> 40 [] c = "t" -> 41
      [] OTHER -> 99

\* a.localeCompare(b) < 0 on lower-cased texts
RECURSIVE TextBefore(_, _)
TextBefore(a, b) ==
    IF b = <<>> THEN FALSE
    ELSE IF a = <<>> THEN TRUE
    ELSE IF CharRank(Head(a)) # CharRank(Head(b))
         THEN CharRank(Head(a)) < CharRank(Head(b))
         ELSE TextBefore(Tail(a), Tail(b))

\* rows.sort by agent name, case-insensitive; the sort is stable
RECURSIVE InsertByAgentName(_, _)
InsertByAgentName(row, sorted) ==
    IF sorted = <<>> THEN <<row>>
    ELSE IF TextBefore(toLowerCase(Head(sorted).agentName), toLowerCase(row.agentName))
         THEN <<Head(sorted)>> \o InsertByAgentName(row, Tail(sorted))
         ELSE <<row>> \o sorted

RECURSIVE SortByAgentName(_)
SortByAgentName(rows) ==
    IF rows = <<>> THEN <<>>
    ELSE InsertByAgentName(Head(rows), SortByAgentName(Tail(rows)))

\* --------------------------------------- AgentTicketAgeTable (React state)
\* new Date(startDate + "T00:00:00") and new Date(endDate + "T23:59:59")
StartOfDay(day) == day * TicksPerDay

EndOfDay(day) == day * TicksPerDay + 2 * (24 * 3600 - 1)

InDateRange(createdTime, start, end) ==
    IF start = 0 /\ end = 0 THEN TRUE
    ELSE IF createdTime = 0 \/ ~IsValidDate(createdTime) THEN FALSE
    ELSE /\ (start = 0 \/ createdTime >= StartOfDay(start))
         /\ (end = 0 \/ createdTime <= EndOfDay(end))

\* utils.normalizeStatus: lower-cased, "on hold" is hold, "in progress" is
\* inProgress, the empty status is unassigned
normalizeStatus(raw) ==
    LET s == toLowerCase(raw)
    IN IF s = <<>> THEN <<"u", "n", "a", "s", "s", "i", "g", "n", "e", "d">>
       ELSE IF s = <<"o", "n", " ", "h", "o", "l", "d">> THEN <<"h", "o", "l", "d">>
       ELSE IF s = <<"i", "n", " ", "p", "r", "o", "g", "r", "e", "s", "s">>
            THEN <<"i", "n", "P", "r", "o", "g", "r", "e", "s", "s">>
       ELSE s

\* the departments the parent knows, by id
departmentsMap ==
    [d \in {"d1", "d2"} |->
        [name |-> IF d = "d1" THEN <<"I", "T">> ELSE <<"H", "R">>]]

\* selectedStatuses.map(normalizeStatus)
normalizedStatusKeys(selectedStatuses) ==
    {normalizeStatus(st) : st \in selectedStatuses}

\* filteredMetricsRows: the agent, department, status and date clauses
filteredMetricsRows(rows, agentNames, selectedDepartmentId, selectedStatuses, start, end) ==
    LET Keep(row) ==
            LET agentOk == agentNames = {} \/ row.agentName \in agentNames
                departmentOk ==
                    \/ selectedDepartmentId = ""
                    \/ row.departmentId = selectedDepartmentId
                    \/ /\ selectedDepartmentId \in DOMAIN departmentsMap
                       /\ row.departmentName = departmentsMap[selectedDepartmentId].name
                statusOk ==
                    \/ normalizedStatusKeys(selectedStatuses) = {}
                    \/ normalizeStatus(row.status) \in normalizedStatusKeys(selectedStatuses)
                dateOk == InDateRange(row.createdTime, start, end)
            IN agentOk /\ departmentOk /\ statusOk /\ dateOk
    IN SelectSeq(rows, Keep)

\* `${agentName} ${ticketNumber} ${status} ${departmentName} ${createdTime}`
CombinedText(row) ==
    row.agentName \o <<" ">> \o row.ticketNumber \o <<" ">> \o row.status
        \o <<" ">> \o row.departmentName \o <<" ">> \o row.createdText

MetricsSearchMatches(row, q) == includes(toLowerCase(CombinedText(row)), q)

sortedMetricsRows(filtered, term) ==
    LET q == toLowerCase(trim(term))
        Keep(row) == MetricsSearchMatches(row, q)
    IN SortByAgentName(IF q # <<>> THEN SelectSeq(filtered, Keep) ELSE filtered)

SortedMetrics ==
    sortedMetricsRows(
        filteredMetricsRows(metricsRows, selectedAgentNames, "", {}, startDate, endDate),
        searchTerm)

CeilDiv(n, d) == (n + d - 1) \div d

Max(a, b) == IF a >= b THEN a ELSE b

Min(a, b) == IF a <= b THEN a ELSE b

\* Array.prototype.slice(start, end)
Slice(rows, start, end) ==
    IF start >= Len(rows) THEN <<>> ELSE SubSeq(rows, start + 1, Min(end, Len(rows)))

metricsTotalPages == Max(1, CeilDiv(Len(SortedMetrics), MetricsPageSize))

pagedMetricsRows ==
    LET start == (metricsPage - 1) * MetricsPageSize
    IN Slice(SortedMetrics, start, start + MetricsPageSize)

\* C7 mutant of ArchivedSearchMatches: the ticket number matched as a
\* substring, the agent name anywhere
ArchivedSearchSubstring(row, q) ==
    LET agent == toLowerCase(row.agentName)
        ticketNo == toLowerCase(trim(row.ticketNumber))
    IN IF IsNumericQuery(q) THEN includes(ticketNo, q) ELSE includes(agent, q)

ArchivedSearchMatches(row, q) ==
    LET agent == toLowerCase(row.agentName)
        ticketNo == toLowerCase(trim(row.ticketNumber))
        words == SplitWords(agent)
    IN IF IsNumericQuery(q) THEN ticketNo = q
       ELSE \E w \in 1..Len(words) : startsWith(words[w], q)

filteredArchivedRows(rows, term, start, end) ==
    LET raw == trim(term)
        q == toLowerCase(raw)
        InRange(row) == InDateRange(row.createdTime, start, end)
        dated == IF start # 0 \/ end # 0 THEN SelectSeq(rows, InRange) ELSE rows
        Keep(row) == ArchivedSearchMatches(row, q)
    IN SortByAgentName(IF raw = <<>> THEN dated ELSE SelectSeq(dated, Keep))

FilteredArchived == filteredArchivedRows(archivedRows, searchTerm, startDate, endDate)

archivedTotalPages == Max(1, CeilDiv(Len(FilteredArchived), ArchivedPageSize))

pagedArchivedRows ==
    LET start == (archivedPage - 1) * ArchivedPageSize
    IN Slice(FilteredArchived, start, start + ArchivedPageSize)

\* the Prev / Next buttons are rendered only when the rows exceed one page
MetricsControlsShown == Len(SortedMetrics) > MetricsPageSize

ArchivedControlsShown == Len(FilteredArchived) > ArchivedPageSize

AgentNamesOf(rows) == {rows[i].agentName : i \in 1..Len(rows)}

\* agentResolutionStats[name]: Number(row.resolutionTimeHours) || 0 is added
\* and count goes up for every row of the agent
RECURSIVE SumHrs(_, _)
SumHrs(rows, name) ==
    IF rows = <<>> THEN 0
    ELSE (IF Head(rows).agentName = name /\ Head(rows).resolutionTimeHours # Null
          THEN Head(rows).resolutionTimeHours[1] ELSE 0) + SumHrs(Tail(rows), name)

RECURSIVE CountRows(_, _)
CountRows(rows, name) ==
    IF rows = <<>> THEN 0
    ELSE (IF Head(rows).agentName = name THEN 1 ELSE 0) + CountRows(Tail(rows), name)

agentResolutionStats(name) ==
    [sumHrs |-> SumHrs(FilteredArchived, name),
     count |-> CountRows(FilteredArchived, name)]

\* ------------------------------------------- /api/archived-tickets (merge)
diffInHours(start, end) ==
    IF start = 0 \/ end = 0 THEN Null
    ELSE IF ~IsValidDate(start) \/ ~IsValidDate(end) THEN Null
    ELSE <<RoundDiv((end - start) * 100, TicksPerHour)>>

\* C8 mutant of mapTicket: closedTime read from lastModifiedTime alone
mapTicketModifiedOnly(ticket, source) ==
    [id |-> ticket.id,
     ticketNumber |-> ticket.id,
     status |-> IF ticket.status # "" THEN ticket.status ELSE "closed",
     createdTime |-> ticket.createdTime,
     closedTime |-> ticket.lastModifiedTime,
     resolutionTimeHours |->
         IF ticket.createdTime # 0 /\ ticket.lastModifiedTime # 0
         THEN diffInHours(ticket.createdTime, ticket.lastModifiedTime) ELSE Null,
     source |-> source]

\* the tickets of this model carry no ticketNumber of their own, so
\* ticket.ticketNumber || ticket.id is the id
mapTicket(ticket, source) ==
    LET createdTime == ticket.createdTime
        closedTime == IF ticket.closedTime # 0 THEN ticket.closedTime
                      ELSE ticket.lastModifiedTime
    IN [id |-> ticket.id,
        ticketNumber |-> ticket.id,
        status |-> IF ticket.status # "" THEN ticket.status ELSE "closed",
        createdTime |-> createdTime,
        closedTime |-> closedTime,
        resolutionTimeHours |->
            IF createdTime # 0 /\ closedTime # 0
            THEN diffInHours(createdTime, closedTime) ELSE Null,
        source |-> source]

IsClosed(t) == ToLowerCase(t.status) = "closed"

OnlyClosed(tickets) == SelectSeq(tickets, IsClosed)

MapTickets(tickets, source) ==
    [i \in 1..Len(tickets) |-> mapTicket(tickets[i], source)]

\* C9 mutant of FilterSeen: the seen-set test dropped (no row is removed)
FilterSeenNoDedupe(rows, seen) == rows

RECURSIVE FilterSeen(_, _)
FilterSeen(rows, seen) ==
    IF rows = <<>> THEN <<>>
    ELSE LET row == Head(rows)
         IN IF row.id \in seen THEN FilterSeen(Tail(rows), seen)
            ELSE <<row>> \o FilterSeen(Tail(rows), seen \cup {row.id})

MergeOrder(archivedMapped, activeClosedMapped) == archivedMapped \o activeClosedMapped

ClosedMs(row) == IF row.closedTime # 0 THEN row.closedTime ELSE 0

\* Array.prototype.sort is stable: a row goes before every later row whose
\* closed time is not greater than its own.
RECURSIVE InsertLatestFirst(_, _)
InsertLatestFirst(row, sorted) ==
    IF sorted = <<>> THEN <<row>>
    ELSE IF ClosedMs(Head(sorted)) > ClosedMs(row)
         THEN <<Head(sorted)>> \o InsertLatestFirst(row, Tail(sorted))
         ELSE <<row>> \o sorted

RECURSIVE SortLatestClosedFirst(_)
SortLatestClosedFirst(rows) ==
    IF rows = <<>> THEN <<>>
    ELSE InsertLatestFirst(Head(rows), SortLatestClosedFirst(Tail(rows)))

\* GET /tickets/{id}/metrics of the upstream: firstResponseTime per ticket
ZohoFirstResponseTime(id) == IF id = "A1" THEN "1:00 hrs" ELSE ""

\* step 4b: frMap is filled from the metrics rows, which exist only for the
\* tickets that have a createdTime
EnrichWithMetrics(rows, tickets) ==
    [i \in 1..Len(rows) |->
        [id |-> rows[i].id,
         ticketNumber |-> rows[i].ticketNumber,
         status |-> rows[i].status,
         createdTime |-> rows[i].createdTime,
         closedTime |-> rows[i].closedTime,
         resolutionTimeHours |-> rows[i].resolutionTimeHours,
         source |-> rows[i].source,
         firstResponseTime |->
            IF \E k \in 1..Len(tickets) :
                   tickets[k].id = rows[i].ticketNumber /\ tickets[k].createdTime # 0
            THEN ZohoFirstResponseTime(rows[i].ticketNumber) ELSE ""]]

\* steps 1-5 of the handler: filter to closed, normalise, merge, dedupe,
\* enrich, sort
Reconcile(activeTickets, archivedTickets) ==
    LET archivedClosed == OnlyClosed(archivedTickets)
        activeClosed == OnlyClosed(activeTickets)
        archivedMapped == MapTickets(archivedClosed, "archived")
        activeClosedMapped == MapTickets(activeClosed, "activeClosed")
        allRows == FilterSeen(MergeOrder(archivedMapped, activeClosedMapped), {})
    IN SortLatestClosedFirst(
           EnrichWithMetrics(allRows, archivedClosed \o activeClosed))

\* a response row handed back as an upstream ticket (it has no
\* lastModifiedTime field)
RowAsTicket(row) ==
    [id |-> row.id, status |-> row.status, createdTime |-> row.createdTime,
     closedTime |-> row.closedTime, lastModifiedTime |-> 0]

\* ------------------------------------------------------ upstream (inputs)
ReconIds == {"A1", "A2"}

ReconStatuses == {"open", "Closed"}

ReconTimes ==
    { [createdTime |-> 10 * TicksPerDay, closedTime |-> 15 * TicksPerDay,
       lastModifiedTime |-> 0],
      [createdTime |-> 10 * TicksPerDay, closedTime |-> 0,
       lastModifiedTime |-> 12 * TicksPerDay],
      [createdTime |-> 0, closedTime |-> 0, lastModifiedTime |-> 0] }

ReconTickets ==
    { [id |-> i, status |-> s, createdTime |-> t.createdTime,
       closedTime |-> t.closedTime, lastModifiedTime |-> t.lastModifiedTime] :
      i \in ReconIds, s \in ReconStatuses, t \in ReconTimes }

\* the component mounted with empty props
TableIdle ==
    /\ metricsRows = <<>>
    /\ archivedRows = <<>>
    /\ selectedAgentNames = {}
    /\ searchTerm = <<>>
    /\ startDate = 0
    /\ endDate = 0
    /\ metricsPage = 1
    /\ archivedPage = 1

ReconIdle ==
    /\ zohoActive = <<>>
    /\ zohoArchived = <<>>
    /\ archRows = <<>>
    /\ archivedCache = <<>>
    /\ reRows = <<>>
    /\ rpc = "fetch"

\* no request has reached the two summary routes
RouteIdle ==
    /\ yearlyRequest = Null
    /\ yearlyResponse = Null
    /\ perfRequest = Null
    /\ perfAllTickets = <<>>
    /\ perfResponse = Null

\* the server just started: the module-level caches of part_003 are empty
\* the department ids a members request can name
DepartmentIds == {"d1", "d2"}

ServerIdle ==
    /\ clock = ServerStart
    /\ requests = <<>>
    /\ assigneeCachePayload = Null
    /\ assigneeCacheTime = 0
    /\ assigneeInFlightPromise = 0
    /\ cachedActiveTickets = <<>>
    /\ metricsCachePayload = Null
    /\ metricsCacheTime = 0
    /\ metricsInFlightPromise = 0
    /\ agentIdToName = <<>>
    /\ departmentsCachePayload = Null
    /\ departmentsCacheTime = 0
    /\ departmentsInFlightPromise = 0
    /\ deptTicketCachePayload = Null
    /\ deptTicketCacheTime = 0
    /\ deptTicketInFlightPromise = 0
    /\ deptMembersCachePayload = [d \in DepartmentIds |-> Null]
    /\ deptMembersCacheTime = [d \in DepartmentIds |-> 0]
    /\ deptMembersInFlightPromise = [d \in DepartmentIds |-> 0]
    /\ limiterJobs = <<>>
    /\ limiterSinceLaunch = -1
    /\ fetchPc = "idle"
    /\ from = 0
    /\ allTicketsLength = 0
    /\ pageRequests = 0
    /\ largestBatch = 0

\* nothing has happened yet: the server just started, the table just mounted
IdleInit == ReconIdle /\ TableIdle /\ RouteIdle /\ ServerIdle

ZohoHasActive(t) ==
    /\ rpc = "fetch"
    /\ Len(zohoActive) + Len(zohoArchived) < MaxTickets
    /\ zohoActive' = Append(zohoActive, t)
    /\ UNCHANGED <<zohoArchived, archRows, archivedCache, reRows, rpc, tableVars, routeVars, serverVars>>

ZohoHasArchived(t) ==
    /\ rpc = "fetch"
    /\ Len(zohoActive) + Len(zohoArchived) < MaxTickets
    /\ zohoArchived' = Append(zohoArchived, t)
    /\ UNCHANGED <<zohoActive, archRows, archivedCache, reRows, rpc, tableVars, routeVars, serverVars>>

\* GET /api/archived-tickets with an empty cache and no query parameters
ArchivedTicketsRoute ==
    /\ rpc = "fetch"
    /\ archRows' = Reconcile(zohoActive, zohoArchived)
    /\ archivedCache' = archRows'
    /\ rpc' = "done"
    /\ UNCHANGED <<zohoActive, zohoArchived, reRows, tableVars, routeVars, serverVars>>

\* the response reconciled again with no archived tickets
ReReconcile ==
    /\ rpc = "done"
    /\ reRows' = Reconcile([i \in 1..Len(archRows) |-> RowAsTicket(archRows[i])], <<>>)
    /\ rpc' = "again"
    /\ UNCHANGED <<zohoActive, zohoArchived, archRows, archivedCache, tableVars, routeVars, serverVars>>

ReconNext ==
    \/ \E t \in ReconTickets : ZohoHasActive(t)
    \/ \E t \in ReconTickets : ZohoHasArchived(t)
    \/ ArchivedTicketsRoute
    \/ ReReconcile

SpecReconcile == IdleInit /\ [][ReconNext]_vars

\* ------------------------------------------ AgentTicketAgeTable (actions)
AnnLee == <<"A", "n", "n", " ", "L", "e", "e">>

MetricsRow(name, number, status, day, text) ==
    [agentName |-> name, ticketNumber |-> number, status |-> status,
     departmentId |-> "d1", departmentName |-> <<"I", "T">>,
     createdTime |-> day * TicksPerDay + TicksPerHour,
     createdText |-> text]

\* rows of /api/ticket-metrics-simple as the parent hands them down
MetricsData ==
    << MetricsRow(AnnLee, <<"1", "2", "3">>, <<"O", "p", "e", "n">>, 10, <<"2", "0", "2", "3", "-", "0", "1", "-", "1", "1">>),
       MetricsRow(<<"J", "o", "a", "n", "n", "a">>, <<"1", "2", "3", "4">>, <<"O", "p", "e", "n">>, 10, <<"2", "0", "2", "3", "-", "0", "1", "-", "1", "1">>),
       MetricsRow(<<"B", "o", "b">>, <<"7", "7">>, <<"C", "l", "o", "s", "e", "d">>, 40, <<"2", "0", "2", "3", "-", "0", "2", "-", "1", "0">>),
       MetricsRow(AnnLee, <<"4", "5">>, <<"O", "p", "e", "n">>, 40, <<"2", "0", "2", "3", "-", "0", "2", "-", "1", "0">>),
       MetricsRow(<<"C", "a", "t">>, <<"9">>, <<"O", "p", "e", "n">>, 40, <<"2", "0", "2", "3", "-", "0", "2", "-", "1", "0">>) >>

ArchivedRow(name, number, day, hours) ==
    [agentName |-> name, ticketNumber |-> number,
     status |-> <<"C", "l", "o", "s", "e", "d">>,
     departmentName |-> <<"I", "T">>,
     createdTime |-> day * TicksPerDay + TicksPerHour,
     closedTime |-> (day + 1) * TicksPerDay,
     resolutionTimeHours |-> hours]

\* rows of /api/archived-tickets as the parent hands them down; hours are
\* hundredths (1.00 h, null, 3.00 h, ...)
ArchivedData ==
    << ArchivedRow(AnnLee, <<"1", "2", "3">>, 10, <<100>>),
       ArchivedRow(AnnLee, <<"1", "2", "4">>, 10, Null),
       ArchivedRow(AnnLee, <<"1", "2", "3", "4">>, 40, <<300>>),
       ArchivedRow(<<"B", "o", "b">>, <<"7", "7">>, 40, <<200>>),
       ArchivedRow(<<"J", "o", "a", "n", "n", "a">>, <<"7", "8">>, 40, Null) >>

SearchTerms == { <<>>, <<"a", "n", "n">>, <<"1", "2", "3">>, <<" ", "B", "o", "b", " ">> }

DateChoices == {0, 20, 30}

AgentNameChoices == { {}, {AnnLee} }

\* the parent re-renders with new metricsRows (no effect depends on them)
MetricsRowsLoaded(n) ==
    /\ metricsRows' = SubSeq(MetricsData, 1, n)
    /\ metricsRows' # metricsRows
    /\ UNCHANGED <<archivedRows, selectedAgentNames, searchTerm, startDate,
                   endDate, metricsPage, archivedPage, reconVars, routeVars, serverVars>>

ArchivedRowsLoaded(n) ==
    /\ archivedRows' = SubSeq(ArchivedData, 1, n)
    /\ archivedRows' # archivedRows
    /\ UNCHANGED <<metricsRows, selectedAgentNames, searchTerm, startDate,
                   endDate, metricsPage, archivedPage, reconVars, routeVars, serverVars>>

\* both page-reset effects list searchTerm
SetSearchTerm(q) ==
    /\ q # searchTerm
    /\ searchTerm' = q
    /\ metricsPage' = 1
    /\ archivedPage' = 1
    /\ UNCHANGED <<metricsRows, archivedRows, selectedAgentNames, startDate,
                   endDate, reconVars, routeVars, serverVars>>

\* only the archived effect lists startDate and endDate
SetStartDate(d) ==
    /\ d # startDate
    /\ startDate' = d
    /\ archivedPage' = 1
    /\ UNCHANGED <<metricsRows, archivedRows, selectedAgentNames, searchTerm,
                   endDate, metricsPage, reconVars, routeVars, serverVars>>

SetEndDate(d) ==
    /\ d # endDate
    /\ endDate' = d
    /\ archivedPage' = 1
    /\ UNCHANGED <<metricsRows, archivedRows, selectedAgentNames, searchTerm,
                   startDate, metricsPage, reconVars, routeVars, serverVars>>

\* only the metrics effect lists selectedAgentNames
SelectAgentNames(names) ==
    /\ names # selectedAgentNames
    /\ selectedAgentNames' = names
    /\ metricsPage' = 1
    /\ UNCHANGED <<metricsRows, archivedRows, searchTerm, startDate, endDate,
                   archivedPage, reconVars, routeVars, serverVars>>

MetricsPrev ==
    /\ MetricsControlsShown
    /\ metricsPage # 1
    /\ metricsPage' = Max(1, metricsPage - 1)
    /\ UNCHANGED <<metricsRows, archivedRows, selectedAgentNames, searchTerm,
                   startDate, endDate, archivedPage, reconVars, routeVars, serverVars>>

MetricsNext ==
    /\ MetricsControlsShown
    /\ metricsPage # metricsTotalPages
    /\ metricsPage' = Min(metricsTotalPages, metricsPage + 1)
    /\ UNCHANGED <<metricsRows, archivedRows, selectedAgentNames, searchTerm,
                   startDate, endDate, archivedPage, reconVars, routeVars, serverVars>>

ArchivedPrev ==
    /\ ArchivedControlsShown
    /\ archivedPage # 1
    /\ archivedPage' = Max(1, archivedPage - 1)
    /\ UNCHANGED <<metricsRows, archivedRows, selectedAgentNames, searchTerm,
                   startDate, endDate, metricsPage, reconVars, routeVars, serverVars>>

ArchivedNext ==
    /\ ArchivedControlsShown
    /\ archivedPage # archivedTotalPages
    /\ archivedPage' = Min(archivedTotalPages, archivedPage + 1)
    /\ UNCHANGED <<metricsRows, archivedRows, selectedAgentNames, searchTerm,
                   startDate, endDate, metricsPage, reconVars, routeVars, serverVars>>

TableNext ==
    \/ \E n \in 0..Len(MetricsData) : MetricsRowsLoaded(n)
    \/ \E n \in 0..Len(ArchivedData) : ArchivedRowsLoaded(n)
    \/ \E q \in SearchTerms : SetSearchTerm(q)
    \/ \E d \in DateChoices : SetStartDate(d)
    \/ \E d \in DateChoices : SetEndDate(d)
    \/ \E names \in AgentNameChoices : SelectAgentNames(names)
    \/ MetricsPrev
    \/ MetricsNext
    \/ ArchivedPrev
    \/ ArchivedNext

SpecTable == IdleInit /\ [][TableNext]_vars

\* ------------------------------------------------------ claims: reconcile
RowCore(row) ==
    [id |-> row.id, status |-> row.status, createdTime |-> row.createdTime,
     closedTime |-> row.closedTime]

RowCores(rows) == [i \in 1..Len(rows) |-> RowCore(rows[i])]

RowsWithId(rows, id) == {i \in 1..Len(rows) : rows[i].id = id}

\* C8: reconciling the reconciled rows again, with no archived tickets, gives
\* the same tickets (same ids, in the same order, with the same status and
\* timestamps).
C8_ReconcileIdempotent ==
    rpc = "again" =>
        /\ RowCores(reRows) = RowCores(archRows)
        /\ {reRows[i].id : i \in 1..Len(reRows)} =
               {archRows[i].id : i \in 1..Len(archRows)}

\* a run in which the first reconciliation removed a duplicate and kept two
\* tickets, one of them closed through lastModifiedTime
C8_Witness ==
    /\ rpc = "again"
    /\ Len(archRows) = 2
    /\ Len(OnlyClosed(zohoActive)) + Len(OnlyClosed(zohoArchived)) > 2
    /\ \E i \in 1..Len(zohoArchived) :
           zohoArchived[i].closedTime = 0 /\ zohoArchived[i].lastModifiedTime # 0
               /\ IsClosed(zohoArchived[i])

\* the scenario of C9 for ticket id: the active list holds it with status
\* open, the archived list holds it once, closed, with both timestamps
MixedSources(id) ==
    /\ \E i \in 1..Len(zohoActive) :
           zohoActive[i].id = id /\ zohoActive[i].status = "open"
    /\ Cardinality(RowsWithId(zohoArchived, id)) = 1
    /\ \A i \in RowsWithId(zohoArchived, id) :
           /\ IsClosed(zohoArchived[i])
           /\ zohoArchived[i].createdTime # 0
           /\ zohoArchived[i].closedTime # 0

\* C9: a ticket that is open in the active list and closed, with a closed
\* time, in the archived list comes out exactly once, closed, with created
\* and closed time present, as the archived record.
C9_MixedSourcesArchivedWins ==
    rpc = "done" =>
        \A id \in ReconIds :
            MixedSources(id) =>
                /\ Cardinality(RowsWithId(archRows, id)) = 1
                /\ \A i \in RowsWithId(archRows, id) :
                       /\ ToLowerCase(archRows[i].status) = "closed"
                       /\ archRows[i].createdTime # 0
                       /\ archRows[i].closedTime # 0
                       /\ archRows[i].source = "archived"
                       /\ \E k \in RowsWithId(zohoArchived, id) :
                              archRows[i].closedTime = zohoArchived[k].closedTime

\* the scenario itself: A1 open in the active list, closed in the archived
C9_Witness ==
    /\ rpc = "done"
    /\ MixedSources("A1")
    /\ Len(zohoActive) = 1
    /\ Len(zohoArchived) = 1
    /\ Len(archRows) = 1
    /\ archRows[1].id = "A1"

\* --------------------------------- AgentTicketAgeTable driven by the keyboard
NameChars == {"a", "B", " "}

NumberChars == {"1", "2"}

QueryChars == {"a", "b", " ", "1"}

TextsUpTo(chars, n) == UNION {[1..k -> chars] : k \in 0..n}

\* one ticket, present in the metrics rows and in the archived rows
SearchInit ==
    /\ ReconIdle
    /\ RouteIdle
    /\ ServerIdle
    /\ \E name \in TextsUpTo(NameChars, MaxNameLen) :
       \E number \in TextsUpTo(NumberChars, MaxNumberLen) :
           /\ metricsRows = <<MetricsRow(name, number, <<"O", "p", "e", "n">>, 10, <<>>)>>
           /\ archivedRows = <<ArchivedRow(name, number, 10, <<100>>)>>
    /\ selectedAgentNames = {}
    /\ searchTerm = <<>>
    /\ startDate = 0
    /\ endDate = 0
    /\ metricsPage = 1
    /\ archivedPage = 1

\* onChange of the search box after a key press
TypeChar(c) ==
    /\ Len(searchTerm) < MaxQueryLen
    /\ SetSearchTerm(Append(searchTerm, c))

Backspace ==
    /\ searchTerm # <<>>
    /\ SetSearchTerm(SubSeq(searchTerm, 1, Len(searchTerm) - 1))

SearchNext ==
    \/ \E c \in QueryChars : TypeChar(c)
    \/ Backspace

SpecSearch == SearchInit /\ [][SearchNext]_vars

\* ---------------------------------------------- claims: the React tables
LastPageSlice(rows, totalPages, size) ==
    Slice(rows, (totalPages - 1) * size, totalPages * size)

\* C3 (as claimed): totalPages = max(1, ceil(n / s)), and a page beyond
\* totalPages shows the rows of the last page, never an empty page.
C3_PageClamped ==
    /\ metricsTotalPages = Max(1, CeilDiv(Len(SortedMetrics), MetricsPageSize))
    /\ archivedTotalPages = Max(1, CeilDiv(Len(FilteredArchived), ArchivedPageSize))
    /\ metricsPage > metricsTotalPages =>
           pagedMetricsRows =
               LastPageSlice(SortedMetrics, metricsTotalPages, MetricsPageSize)
    /\ archivedPage > archivedTotalPages =>
           pagedArchivedRows =
               LastPageSlice(FilteredArchived, archivedTotalPages, ArchivedPageSize)

\* C4 (as claimed): whenever the current page lies beyond totalPages, a Prev
\* or Next control can be clicked to bring it back into 1..totalPages.
C4_PrevNextRecover ==
    /\ metricsPage > metricsTotalPages => ENABLED (MetricsPrev \/ MetricsNext)
    /\ archivedPage > archivedTotalPages => ENABLED (ArchivedPrev \/ ArchivedNext)

RECURSIVE CountPresent(_, _)
CountPresent(rows, name) ==
    IF rows = <<>> THEN 0
    ELSE (IF Head(rows).agentName = name /\ Head(rows).resolutionTimeHours # Null
          THEN 1 ELSE 0) + CountPresent(Tail(rows), name)

RECURSIVE SumPresent(_, _)
SumPresent(rows, name) ==
    IF rows = <<>> THEN 0
    ELSE (IF Head(rows).agentName = name /\ Head(rows).resolutionTimeHours # Null
          THEN Head(rows).resolutionTimeHours[1] ELSE 0) + SumPresent(Tail(rows), name)

\* C5 (as claimed): an agent's average resolution time is the sum of the
\* durations that are present over the number of tickets that have one
\* (sum / count = presentSum / presentCount, cross-multiplied).
C5_AverageExcludesMissing ==
    \A name \in AgentNamesOf(FilteredArchived) :
        LET stats == agentResolutionStats(name)
            presentCount == CountPresent(FilteredArchived, name)
            presentSum == SumPresent(FilteredArchived, name)
        IN presentCount > 0 =>
               stats.sumHrs * presentCount = presentSum * stats.count

\* word-prefix match stated on character positions: q is found in the name
\* at the start of a maximal run of non-space characters and holds no space
WordPrefixAt(name, q, i) ==
    /\ ~IsSpace(name[i])
    /\ (i = 1 \/ IsSpace(name[i - 1]))
    /\ \A k \in 1..Len(q) :
           /\ i + k - 1 <= Len(name)
           /\ LowerChar(name[i + k - 1]) = q[k]
           /\ ~IsSpace(q[k])

SearchPolicy(row, term) ==
    LET q == toLowerCase(trim(term))
    IN IF IsNumericQuery(q) THEN trim(row.ticketNumber) = q
       ELSE \E i \in 1..Len(row.agentName) : WordPrefixAt(row.agentName, q, i)

\* C7 (as claimed): with a non-empty query, every row shown by a table's
\* free-text search matches by ticket-number equality (numeric query) or by
\* word prefix of the agent name (any other query).
C7_SearchPolicyEverywhere ==
    trim(searchTerm) # <<>> =>
        /\ \A i \in 1..Len(FilteredArchived) :
               SearchPolicy(FilteredArchived[i], searchTerm)
        /\ \A i \in 1..Len(SortedMetrics) :
               SearchPolicy(SortedMetrics[i], searchTerm)

\* C7 (amended): in the archived-tickets table a row is shown exactly when
\* it matches that policy.
C7_ArchivedSearchPolicy ==
    trim(searchTerm) # <<>> =>
        \A i \in 1..Len(archivedRows) :
            (\E k \in 1..Len(FilteredArchived) : FilteredArchived[k] = archivedRows[i])
                <=> SearchPolicy(archivedRows[i], searchTerm)

\* a numeric query that equals the ticket number, and an agent-name query
\* that is a prefix of a later word of the name
C7_Witness ==
    /\ Len(FilteredArchived) = 1
    /\ \/ /\ searchTerm = <<"1">>
          /\ archivedRows[1].ticketNumber = <<"1">>
       \/ /\ searchTerm = <<"b">>
          /\ archivedRows[1].agentName = <<"a", " ", "B">>

\* ================================================ the two summary routes
RESOLVED_STATUSES == {"resolved", "closed", "archived", "completed"}

DaysInYear(y) ==
    IF y % 4 = 0 /\ (y % 100 # 0 \/ y % 400 = 0) THEN 366 ELSE 365

RECURSIVE YearFrom(_, _)
YearFrom(y, days) ==
    IF days < DaysInYear(y) THEN y ELSE YearFrom(y + 1, days - DaysInYear(y))

\* Date.prototype.getFullYear of a valid date
getFullYear(t) == YearFrom(2023, t \div TicksPerDay)

AssignedTo(tickets, agentId) ==
    SelectSeq(tickets, LAMBDA t : t.assigneeId = agentId)

RECURSIVE ConcatByDepartment(_, _)
ConcatByDepartment(tickets, departmentIds) ==
    IF departmentIds = <<>> THEN <<>>
    ELSE SelectSeq(tickets, LAMBDA t : t.departmentId = Head(departmentIds))
             \o ConcatByDepartment(tickets, Tail(departmentIds))

\* fetchAllTickets(accessToken, departmentIds, agentId): one upstream listing
\* per department id (one unfiltered listing when there is none); the
\* upstream filters by departmentId and agentId
fetchAllTickets(departmentIds, agentId) ==
    LET byAgent == IF agentId # "" THEN AssignedTo(zohoActive, agentId)
                   ELSE zohoActive
    IN IF departmentIds = <<>> THEN byAgent
       ELSE ConcatByDepartment(byAgent, departmentIds)

\* fetchAllArchivedTickets over every department
fetchAllArchivedTickets == zohoArchived

IsResolvedStatus(status) == ToLowerCase(status) \in RESOLVED_STATUSES

\* ------------------------------------------- /api/tickets-yearly-summary
SummaryYears == 2020..2025

YearlyAllTickets(agentId) ==
    LET filtering == agentId # "" /\ agentId # "all"
        activeTickets == fetchAllTickets(<<>>, IF filtering THEN agentId ELSE "")
        archivedTickets == IF filtering
                           THEN AssignedTo(fetchAllArchivedTickets, agentId)
                           ELSE fetchAllArchivedTickets
    IN activeTickets \o archivedTickets

\* allTickets.forEach of the route, from the first ticket on
RECURSIVE YearlyForEach(_, _)
YearlyForEach(tickets, summary) ==
    IF tickets = <<>> THEN summary
    ELSE LET t == Head(tickets)
             y == getFullYear(t.createdTime)
         IN IF ~IsValidDate(t.createdTime) \/ y \notin DOMAIN summary
            THEN YearlyForEach(Tail(tickets), summary)
            ELSE YearlyForEach(Tail(tickets),
                     [summary EXCEPT
                         ![y] = [created |-> @.created + 1,
                                 resolved |-> @.resolved +
                                     (IF IsResolvedStatus(t.status) THEN 1 ELSE 0)]])

YearlySummary(agentId) ==
    YearlyForEach(YearlyAllTickets(agentId),
                  [y \in SummaryYears |-> [created |-> 0, resolved |-> 0]])

\* tickets of the upstream: created in 2023, closed in 2023 or in 2024
YearlyTickets ==
    { [id |-> "A1", status |-> s, assigneeId |-> a,
       createdTime |-> t.createdTime, closedTime |-> t.closedTime] :
      s \in {"Open", "Closed"}, a \in {"", "u1"},
      t \in { [createdTime |-> 10 * TicksPerDay, closedTime |-> 400 * TicksPerDay],
              [createdTime |-> 10 * TicksPerDay, closedTime |-> 15 * TicksPerDay],
              [createdTime |-> 0, closedTime |-> 0] } }

\* GET /api/tickets-yearly-summary?agentId=...
TicketsYearlySummaryRoute(agentId) ==
    /\ rpc = "fetch"
    /\ yearlyRequest' = [agentId |-> agentId]
    /\ yearlyResponse' = YearlySummary(agentId)
    /\ rpc' = "done"
    /\ UNCHANGED <<zohoActive, zohoArchived, archRows, archivedCache, reRows,
                   perfRequest, perfAllTickets, perfResponse, tableVars, serverVars>>

YearlyNext ==
    \/ \E t \in YearlyTickets : ZohoHasActive(t)
    \/ \E t \in YearlyTickets : ZohoHasArchived(t)
    \/ \E agentId \in {"", "all", "u1"} : TicketsYearlySummaryRoute(agentId)

SpecYearly == IdleInit /\ [][YearlyNext]_vars

CountWhere(tickets, Test(_)) == Len(SelectSeq(tickets, Test))

\* C6 (as claimed): in the yearly summary every ticket whose creation time
\* parses counts once as created in its creation year, and every
\* resolved-like ticket whose closure time parses counts once as resolved in
\* its closure year.
C6_YearlyByCreationAndClosure ==
    yearlyResponse # Null =>
        LET tickets == YearlyAllTickets(yearlyRequest.agentId)
        IN \A y \in SummaryYears :
               /\ yearlyResponse[y].created =
                      CountWhere(tickets,
                          LAMBDA t : IsValidDate(t.createdTime)
                                     /\ getFullYear(t.createdTime) = y)
               /\ yearlyResponse[y].resolved =
                      CountWhere(tickets,
                          LAMBDA t : IsResolvedStatus(t.status)
                                     /\ IsValidDate(t.closedTime)
                                     /\ getFullYear(t.closedTime) = y)

\* ---------------------------------------------- /api/agent-performance
\* metrics.resolutionTime of GET /tickets/{id}/metrics (upstream)
ZohoResolutionTime(id) == IF id = "A1" THEN "02:00 hrs" ELSE ""

\* hundredths of an hour; a text with no digit gives 0
parseZohoDurationToHours(str) ==
    CASE str = "02:00 hrs" -> 200
      [] str = "1:00 hrs" -> 100
      [] OTHER -> 0

InRange(time, fromDateObj, toDateObj) ==
    /\ time # 0
    /\ (fromDateObj = 0 \/ time >= fromDateObj)
    /\ (toDateObj = 0 \/ time <= toDateObj)

\* allTickets of the route: merge, then the agentId and the date filters
PerfAllTickets(query) ==
    LET activeTickets == fetchAllTickets(<<>>, query.agentId)
        archivedTickets == fetchAllArchivedTickets
        merged == activeTickets \o archivedTickets
        byAgent == IF query.agentId # "" /\ query.agentId # "all"
                   THEN AssignedTo(merged, query.agentId) ELSE merged
    IN IF query.fromDate # 0 \/ query.toDate # 0
       THEN SelectSeq(byAgent,
                LAMBDA t : \/ InRange(t.createdTime, query.fromDate, query.toDate)
                           \/ InRange(t.closedTime, query.fromDate, query.toDate))
       ELSE byAgent

AgentKey(t) == IF t.assigneeId # "" THEN t.assigneeId ELSE "unassigned"

\* a || b || ... over names, the empty name being the falsy one
RECURSIVE FirstTruthy(_)
FirstTruthy(names) ==
    IF names = <<>> THEN ""
    ELSE IF Len(Head(names)) > 0 THEN Head(names)
    ELSE FirstTruthy(Tail(names))

\* the embedded assignee object of a ticket
Assignee(displayName, fullName, name, email) ==
    [displayName |-> displayName, fullName |-> fullName, name |-> name,
     email |-> email]

\* assignee.displayName || assignee.fullName || assignee.name || assignee.email
EmbeddedAssigneeName(ticket) ==
    IF ticket.assignee = Null THEN ""
    ELSE FirstTruthy(<<ticket.assignee.displayName, ticket.assignee.fullName,
                       ticket.assignee.name, ticket.assignee.email>>)

\* assigneeIdStr && agentIdToName[assigneeIdStr]
nameFromMap(ticket) ==
    IF ticket.assigneeId # "" /\ ticket.assigneeId \in DOMAIN agentIdToName
    THEN agentIdToName[ticket.assigneeId] ELSE ""

\* agentName of fetchTicketMetricsForTickets
metricsAgentName(ticket) ==
    FirstTruthy(<<nameFromMap(ticket), EmbeddedAssigneeName(ticket),
                  ticket.assigneeName, "Unassigned">>)

\* agentName of mapTicket in /api/archived-tickets
archivedAgentName(ticket) ==
    FirstTruthy(<<nameFromMap(ticket), EmbeddedAssigneeName(ticket),
                  ticket.assigneeName, "Unassigned">>)

\* nameFromTicket of /api/agent-performance
nameFromTicket(ticket) ==
    FirstTruthy(<<EmbeddedAssigneeName(ticket), ticket.assigneeName, "Unassigned">>)

\* the first ticket of allTickets with the agent key creates the entry
FirstOfAgent(tickets, k) ==
    tickets[CHOOSE i \in 1..Len(tickets) :
                /\ AgentKey(tickets[i]) = k
                /\ \A j \in 1..(i - 1) : AgentKey(tickets[j]) # k]

\* statusMapLocal after the forEach: the last ticket with the key wins
RECURSIVE StatusMapLocal(_, _)
StatusMapLocal(tickets, id) ==
    IF tickets = <<>> THEN ""
    ELSE IF tickets[Len(tickets)].id = id
         THEN ToLowerCase(tickets[Len(tickets)].status)
         ELSE StatusMapLocal(SubSeq(tickets, 1, Len(tickets) - 1), id)

\* rows of fetchTicketMetricsForTickets: one per ticket that has a
\* createdTime; a row carries no agentId and no assigneeId
MetricRowsFor(tickets) == SelectSeq(tickets, LAMBDA t : t.createdTime # 0)

\* step 2: the metrics overlay, all of it under the key "unassigned"
RECURSIVE OverlayTotals(_, _)
OverlayTotals(rows, tickets) ==
    IF rows = <<>> THEN [totalResolutionHours |-> 0, resolutionCount |-> 0]
    ELSE LET rest == OverlayTotals(Tail(rows), tickets)
             id == Head(rows).id
         IN IF StatusMapLocal(tickets, id) \in RESOLVED_STATUSES
            THEN [totalResolutionHours |-> rest.totalResolutionHours +
                      parseZohoDurationToHours(ZohoResolutionTime(id)),
                  resolutionCount |-> rest.resolutionCount + 1]
            ELSE rest

\* tickets.sort((a, b) => new Date(b.createdTime) - new Date(a.createdTime))
RECURSIVE InsertNewestFirst(_, _)
InsertNewestFirst(t, sorted) ==
    IF sorted = <<>> THEN <<t>>
    ELSE IF Head(sorted).createdTime >= t.createdTime
         THEN <<Head(sorted)>> \o InsertNewestFirst(t, Tail(sorted))
         ELSE <<t>> \o sorted

RECURSIVE SortNewestFirst(_)
SortNewestFirst(tickets) ==
    IF tickets = <<>> THEN <<>>
    ELSE InsertNewestFirst(tickets[Len(tickets)],
             SortNewestFirst(SubSeq(tickets, 1, Len(tickets) - 1)))

\* steps 1 and 2: baseAgentsMap
BaseAgentsMap(tickets) ==
    LET metricRows == MetricRowsFor(tickets)
        keys == {AgentKey(tickets[i]) : i \in 1..Len(tickets)}
                    \cup (IF metricRows # <<>> THEN {"unassigned"} ELSE {})
        overlay == OverlayTotals(metricRows, tickets)
    IN [k \in keys |->
           LET mine == {i \in 1..Len(tickets) : AgentKey(tickets[i]) = k}
           IN [agentId |-> k,
               agentName |->
                   IF mine = {}
                   THEN metricsAgentName(Head(SortNewestFirst(metricRows)))
                   ELSE nameFromTicket(FirstOfAgent(tickets, k)),
               ticketIds |-> {tickets[i].id : i \in mine},
               resolvedIds |-> {tickets[i].id : i \in
                                   {j \in mine : IsResolvedStatus(tickets[j].status)}},
               pendingIds |-> {tickets[i].id : i \in
                                   {j \in mine : ~IsResolvedStatus(tickets[j].status)}},
               totalResolutionHours |->
                   IF k = "unassigned" THEN overlay.totalResolutionHours ELSE 0,
               resolutionCount |->
                   IF k = "unassigned" THEN overlay.resolutionCount ELSE 0]]

\* the sum of a number per key
RECURSIVE SumOver(_)
SumOver(f) ==
    IF DOMAIN f = {} THEN 0
    ELSE LET k == CHOOSE x \in DOMAIN f : TRUE
         IN f[k] + SumOver([x \in DOMAIN f \ {k} |-> f[x]])

\* steps 3 and 4: the agents array (by agent key) and the summary cards; an
\* average is kept as the pair total / count
AgentPerformance(query) ==
    LET allTickets == PerfAllTickets(query)
        base == BaseAgentsMap(allTickets)
        agents == [k \in DOMAIN base |->
                      [agentId |-> k,
                       agentName |-> base[k].agentName,
                       ticketsCreated |-> Cardinality(base[k].ticketIds),
                       ticketsResolved |-> Cardinality(base[k].resolvedIds),
                       pendingCount |-> Cardinality(base[k].pendingIds),
                       avgResolutionHours |->
                           IF base[k].resolutionCount > 0
                           THEN <<base[k].totalResolutionHours, base[k].resolutionCount>>
                           ELSE <<0, 1>>]]
        totalResolved == SumOver([k \in DOMAIN agents |-> agents[k].ticketsResolved])
        totalPending == SumOver([k \in DOMAIN agents |-> agents[k].pendingCount])
        \* every average has the denominator of the "unassigned" entry or is 0
        den == IF "unassigned" \in DOMAIN agents
               THEN agents["unassigned"].avgResolutionHours[2] ELSE 1
        totalResolutionHours ==
            SumOver([k \in DOMAIN agents |->
                        agents[k].avgResolutionHours[1] * agents[k].ticketsResolved])
    IN IF allTickets = <<>> THEN [agents |-> <<>>, summary |-> Null]
       ELSE [agents |-> agents,
             summary |->
                 [totalCreated |-> totalResolved + totalPending,
                  totalResolved |-> totalResolved,
                  totalPending |-> totalPending,
                  avgResolutionHours |->
                      IF totalResolved > 0
                      THEN RoundDiv(totalResolutionHours, den * totalResolved)
                      ELSE 0]]

PerfTickets ==
    { [id |-> i, status |-> s, assigneeId |-> a,
       assignee |-> Null, assigneeName |-> "",
       createdTime |-> 10 * TicksPerDay,
       closedTime |-> IF s = "Closed" THEN 400 * TicksPerDay ELSE 0] :
      i \in {"A1", "A2"}, s \in {"Open", "Closed"}, a \in {"", "u1"} }

PerfQueries ==
    { [agentId |-> a, fromDate |-> f, toDate |-> t] :
      a \in {"", "u1"}, f \in {0, 300 * TicksPerDay}, t \in {0, 300 * TicksPerDay} }

\* GET /api/agent-performance?agentId=...&fromDate=...&toDate=...
AgentPerformanceRoute(query) ==
    /\ rpc = "fetch"
    /\ perfRequest' = query
    /\ perfAllTickets' = PerfAllTickets(query)
    /\ perfResponse' = AgentPerformance(query)
    /\ rpc' = "done"
    /\ UNCHANGED <<zohoActive, zohoArchived, archRows, archivedCache, reRows,
                   yearlyRequest, yearlyResponse, tableVars, serverVars>>

PerfNext ==
    \/ \E t \in PerfTickets : ZohoHasActive(t)
    \/ \E t \in PerfTickets : ZohoHasArchived(t)
    \/ \E query \in PerfQueries : AgentPerformanceRoute(query)

SpecPerf == IdleInit /\ [][PerfNext]_vars

UniqueIds(tickets) ==
    \A i, j \in 1..Len(tickets) : tickets[i].id = tickets[j].id => i = j

\* C1 (as claimed): in the merged set of active and archived tickets every
\* ticket id occurs once, and an id found in both sources is represented by
\* its archived record (each source taken to list a ticket once).
C1_EachIdOnceArchivedWins ==
    (perfRequest # Null /\ UniqueIds(zohoActive) /\ UniqueIds(zohoArchived)) =>
        /\ \A i, j \in 1..Len(perfAllTickets) :
               perfAllTickets[i].id = perfAllTickets[j].id => i = j
        /\ \A i \in 1..Len(perfAllTickets) :
               (\E k \in 1..Len(zohoArchived) : zohoArchived[k].id = perfAllTickets[i].id)
                   => \E k \in 1..Len(zohoArchived) : zohoArchived[k] = perfAllTickets[i]

\* ===================== /api/zoho-assignees-with-ticket-counts: the payload
statusMap(rawStatus) ==
    CASE rawStatus = "open" -> "open"
      [] rawStatus = "on hold" -> "hold"
      [] rawStatus = "hold" -> "hold"
      [] rawStatus = "closed" -> "closed"
      [] rawStatus = "in progress" -> "inProgress"
      [] rawStatus = "escalated" -> "escalated"
      [] rawStatus = "unassigned" -> "unassigned"
      [] rawStatus = "" -> "unassigned"
      [] OTHER -> ""

departmentList == <<"d1", "d2">>

\* fetchAllUsers: the agents the upstream lists
ZohoUsers == <<[id |-> "u1", displayName |-> "Ann", departmentIds |-> {"d1", "d2"}]>>

StatusKeys == {"open", "hold", "inProgress", "escalated"}

FineBuckets ==
    {"BetweenOneAndSevenDays", "BetweenEightAndFifteenDays", "OlderThanFifteenDays"}

CoarseBuckets ==
    {"BetweenOneAndFifteenDays", "BetweenSixteenAndThirtyDays", "OlderThanThirtyDays"}

AgeBuckets == FineBuckets \cup CoarseBuckets

Days(n) == n * TicksPerDay

\* the else-if chain of the fine lists; "" when no branch is taken
FineBucketOf(age) ==
    IF age >= 0 /\ age < Days(8) THEN "BetweenOneAndSevenDays"
    ELSE IF age >= Days(8) /\ age < Days(16) THEN "BetweenEightAndFifteenDays"
    ELSE IF age >= Days(16) THEN "OlderThanFifteenDays"
    ELSE ""

\* C18 mutant of CoarseBucketOf: the second bucket ends below thirty days
CoarseBucketOfThirtyExcluded(age) ==
    IF age >= 0 /\ age < Days(16) THEN "BetweenOneAndFifteenDays"
    ELSE IF age >= Days(16) /\ age < Days(30) THEN "BetweenSixteenAndThirtyDays"
    ELSE IF age > Days(30) THEN "OlderThanThirtyDays"
    ELSE ""

\* the else-if chain of the coarse counts and lists
CoarseBucketOf(age) ==
    IF age >= 0 /\ age < Days(16) THEN "BetweenOneAndFifteenDays"
    ELSE IF age >= Days(16) /\ age < Days(31) THEN "BetweenSixteenAndThirtyDays"
    ELSE IF age > Days(30) THEN "OlderThanThirtyDays"
    ELSE ""

\* the six independent filters of perStatusAge
AgeInBucket(age, bucket) ==
    CASE bucket = "BetweenOneAndSevenDays" -> age < Days(8) /\ age >= 0
      [] bucket = "BetweenEightAndFifteenDays" -> age >= Days(8) /\ age < Days(16)
      [] bucket = "OlderThanFifteenDays" -> age >= Days(16)
      [] bucket = "BetweenOneAndFifteenDays" -> age < Days(16) /\ age >= 0
      [] bucket = "BetweenSixteenAndThirtyDays" -> age >= Days(16) /\ age < Days(31)
      [] bucket = "OlderThanThirtyDays" -> age > Days(30)

IsUnassignedAssignee(ticket) == ticket.assigneeId \in {"", "none", "null"}

AssigneeKey(ticket) ==
    IF IsUnassignedAssignee(ticket) THEN "unassigned" ELSE ticket.assigneeId

DeptKey(ticket) ==
    IF ticket.departmentId # "" THEN ticket.departmentId ELSE "no_department"

NormalizedStatus(ticket) ==
    LET mapped == statusMap(ToLowerCase(ticket.status))
    IN IF mapped # "" THEN mapped ELSE "unassigned"

EmptyAgingCounts ==
    [Tickets |-> [k \in StatusKeys \X AgeBuckets |-> <<>>],
     Count |-> [k \in StatusKeys \X CoarseBuckets |-> 0]]

\* the body of tickets.forEach for one ticket: a push to a fine list, and a
\* Count++ with a push to a coarse list
AddToAgingCounts(agingCounts, ticket, now) ==
    LET normalizedStatus == NormalizedStatus(ticket)
        age == now - ticket.createdTime
        fine == <<normalizedStatus, FineBucketOf(age)>>
        coarse == <<normalizedStatus, CoarseBucketOf(age)>>
    IN IF ticket.createdTime = 0 \/ ~IsValidDate(ticket.createdTime)
       THEN agingCounts
       ELSE [Tickets |->
                [k \in DOMAIN agingCounts.Tickets |->
                    IF k = fine \/ k = coarse
                    THEN Append(agingCounts.Tickets[k], ticket.id)
                    ELSE agingCounts.Tickets[k]],
             Count |->
                [k \in DOMAIN agingCounts.Count |->
                    IF k = coarse THEN agingCounts.Count[k] + 1
                    ELSE agingCounts.Count[k]]]

\* userDeptAgingCounts after tickets.forEach, keyed by <<assignee, department>>
RECURSIVE UserDeptAgingCounts(_, _)
UserDeptAgingCounts(tickets, now) ==
    IF tickets = <<>> THEN <<>>
    ELSE LET before == UserDeptAgingCounts(SubSeq(tickets, 1, Len(tickets) - 1), now)
             ticket == tickets[Len(tickets)]
             key == <<AssigneeKey(ticket), DeptKey(ticket)>>
             agingCounts == IF key \in DOMAIN before THEN before[key]
                            ELSE EmptyAgingCounts
         IN [k \in DOMAIN before \cup {key} |->
                IF k = key THEN AddToAgingCounts(agingCounts, ticket, now)
                ELSE before[k]]

\* C13 mutant of StatusCountKey: the base status is looked at before the flag
StatusCountKeyStatusFirst(ticket) ==
    LET normalizedStatus == NormalizedStatus(ticket)
    IN IF IsUnassignedAssignee(ticket)
       THEN (IF normalizedStatus = "closed" THEN "" ELSE "unassigned")
       ELSE IF normalizedStatus \in {"open", "hold", "closed", "inProgress"}
            THEN normalizedStatus
       ELSE IF normalizedStatus = "escalated" \/ ticket.isEscalated THEN "escalated"
       ELSE ""

\* the counter of ticketStatusCountMap the ticket increments; "" for none
StatusCountKey(ticket) ==
    LET normalizedStatus == NormalizedStatus(ticket)
    IN IF IsUnassignedAssignee(ticket)
       THEN (IF normalizedStatus = "closed" THEN "" ELSE "unassigned")
       ELSE IF normalizedStatus = "escalated" \/ ticket.isEscalated THEN "escalated"
       ELSE IF normalizedStatus \in {"open", "hold", "closed", "inProgress"}
            THEN normalizedStatus
       ELSE ""

StatusCounters == {"open", "closed", "hold", "escalated", "unassigned", "inProgress"}

ticketStatusCountMap(tickets, assigneeId) ==
    [c \in StatusCounters |->
        CountWhere(tickets,
            LAMBDA t : AssigneeKey(t) = assigneeId /\ StatusCountKey(t) = c)]

\* String.prototype.localeCompare on the ticket numbers of the model
LocaleRank(ticketNumber) ==
    CASE ticketNumber = "T1" -> 1 [] ticketNumber = "T2" -> 2
      [] ticketNumber = "T3" -> 3 [] ticketNumber = "T4" -> 4
      [] ticketNumber = "T5" -> 5 [] ticketNumber = "T6" -> 6
      [] OTHER -> 7

OpenUnassigned(tickets) ==
    SelectSeq(tickets,
        LAMBDA t : IsUnassignedAssignee(t) /\ NormalizedStatus(t) # "closed")

\* latestUnassignedTicketIdMap["unassigned"] || null
LatestUnassignedTicketId(tickets) ==
    LET numbers == {OpenUnassigned(tickets)[i].id : i \in 1..Len(OpenUnassigned(tickets))}
    IN IF numbers = {} THEN Null
       ELSE <<CHOOSE n \in numbers :
                  \A m \in numbers : LocaleRank(m) <= LocaleRank(n)>>

AgentTickets(tickets, userId) ==
    SelectSeq(tickets,
        LAMBDA t : t.assigneeId = userId /\ t.status # ""
                   /\ ToLowerCase(t.status) # "closed")

\* statusMap[rawStatus] || rawStatus
NormalizedOrRaw(ticket) ==
    LET mapped == statusMap(ToLowerCase(ticket.status))
    IN IF mapped # "" THEN mapped ELSE ToLowerCase(ticket.status)

perStatusAge(agentTickets, now2) ==
    [k \in StatusKeys \X AgeBuckets |->
        CountWhere(agentTickets,
            LAMBDA t : /\ NormalizedOrRaw(t) = k[1]
                       /\ t.createdTime # 0
                       /\ IsValidDate(t.createdTime)
                       /\ AgeInBucket(now2 - t.createdTime, k[2]))]

\* users after the push of the "Unassigned" entry
UsersWithUnassigned ==
    ZohoUsers \o <<[id |-> "unassigned", displayName |-> "Unassigned",
                    departmentIds |-> {}]>>

DepartmentIds2(user) ==
    SelectSeq(departmentList, LAMBDA depId : depId \in user.departmentIds)

\* one entry of members
Member(user, tickets, now, now2) ==
    LET agentTickets == AgentTickets(tickets, user.id)
        counts == UserDeptAgingCounts(tickets, now)
        departmentIds2 == DepartmentIds2(user)
    IN [id |-> user.id,
        name |-> user.displayName,
        departmentIds |-> departmentIds2,
        tickets |-> [status |-> ticketStatusCountMap(tickets, user.id),
                     age |-> perStatusAge(agentTickets, now2)],
        latestUnassignedTicketId |->
            IF user.id = "unassigned" THEN LatestUnassignedTicketId(tickets)
            ELSE Null,
        departmentTicketCounts |->
            [depId \in SeqToSet(departmentIds2) |->
                CountWhere(agentTickets, LAMBDA t : t.departmentId = depId)],
        departmentAgingCounts |->
            [depId \in {k[2] : k \in {x \in DOMAIN counts : x[1] = user.id}} |->
                counts[<<user.id, depId>>]],
        pendingTickets |->
            [i \in 1..Len(agentTickets) |->
                [departmentId |-> agentTickets[i].departmentId,
                 status |-> agentTickets[i].status,
                 ticketNumber |-> agentTickets[i].id]]]

FineTotal(counts, depId, bucket) ==
    SumOver([k \in {x \in DOMAIN counts : x[2] = depId} \X StatusKeys |->
                Len(counts[k[1]].Tickets[<<k[2], bucket>>])])

departmentAgeBuckets(tickets, now) ==
    LET counts == UserDeptAgingCounts(tickets, now)
    IN [i \in 1..Len(departmentList) |->
           LET depId == departmentList[i]
               count_1_7 == FineTotal(counts, depId, "BetweenOneAndSevenDays")
               count_8_15 == FineTotal(counts, depId, "BetweenEightAndFifteenDays")
               count_15plus == FineTotal(counts, depId, "OlderThanFifteenDays")
           IN [departmentId |-> depId,
               count_1_7 |-> count_1_7,
               count_8_15 |-> count_8_15,
               count_15plus |-> count_15plus,
               total |-> count_1_7 + count_8_15 + count_15plus]]

\* the payload built from the fetched tickets; now and now2 are the two
\* readings of Date.now()
AssigneesPayload(tickets, now, now2) ==
    [members |->
        [i \in 1..Len(UsersWithUnassigned) |->
            Member(UsersWithUnassigned[i], tickets, now, now2)],
     unassignedTicketNumbers |->
        [i \in 1..Len(OpenUnassigned(tickets)) |-> OpenUnassigned(tickets)[i].id],
     departmentAgeBuckets |-> departmentAgeBuckets(tickets, now)]

activeStatuses == {"open", "on hold", "in progress", "escalated"}

\* ------------------------------------------- /api/ticket-metrics-simple
\* the rows of fetchTicketMetricsForTickets
\* failed: the tickets whose GET /tickets/{id}/metrics is rejected (the
\* .catch(() => null) of the call, and the "if (!item) continue" of the loop)
fetchTicketMetricsForTickets(tickets, failed) ==
    LET ticketsSorted ==
            SelectSeq(SortNewestFirst(MetricRowsFor(tickets)),
                      LAMBDA t : t.id \notin failed)
    IN [i \in 1..Len(ticketsSorted) |->
           [ticketNumber |-> ticketsSorted[i].id,
            status |-> ticketsSorted[i].status,
            agentName |-> metricsAgentName(ticketsSorted[i]),
            createdTime |-> ticketsSorted[i].createdTime,
            resolutionTime |-> ZohoResolutionTime(ticketsSorted[i].id),
            departmentId |-> ticketsSorted[i].departmentId]]

\* ================================ the cached routes and their requests
\* 7 minutes, in half seconds
CACHE_TTL_MS == 7 * 60 * 2

ClockStep == 4 * 60 * 2

Ok(body) == [status |-> 200, body |-> body]

ServerError == [status |-> 500, body |-> Null]

NewRequest(route, query, pc, response) ==
    [route |-> route, query |-> query, pc |-> pc, tickets |-> <<>>,
     response |-> response]

NoQuery == [departmentIds |-> <<>>, agentId |-> ""]

\* the promise settles: the request that runs it and every request that
\* awaits it continue in the same turn of the event loop
Settle(route, r, response) ==
    [i \in 1..Len(requests) |->
        IF i = r \/ (requests[i].route = route /\ requests[i].pc = "awaiting")
        THEN [requests[i] EXCEPT !.pc = "responded", !.response = response]
        ELSE requests[i]]

\* GET /api/zoho-assignees-with-ticket-counts up to its first await
AssigneesRequest(query) ==
    /\ Len(requests) < MaxRequests
    /\ IF assigneeCachePayload # Null /\ clock - assigneeCacheTime < CACHE_TTL_MS
       THEN /\ requests' = Append(requests,
                   NewRequest("assignees", query, "responded", Ok(assigneeCachePayload)))
            /\ UNCHANGED assigneeInFlightPromise
       ELSE IF assigneeInFlightPromise # 0
       THEN /\ requests' = Append(requests,
                   NewRequest("assignees", query, "awaiting", Null))
            /\ UNCHANGED assigneeInFlightPromise
       ELSE /\ requests' = Append(requests,
                   NewRequest("assignees", query, "running", Null))
            /\ assigneeInFlightPromise' = Len(requests) + 1
    /\ UNCHANGED <<clock, assigneeCachePayload, assigneeCacheTime, cachedActiveTickets,
                   metricsCachePayload, metricsCacheTime, metricsInFlightPromise,
                   agentIdToName,
                   reconVars, tableVars, routeVars,
                   deptCacheVars, limiterVars, pagingVars>>

\* the promise after fetchAllUsers and fetchAllTickets
AssigneesTicketsFetched(r) ==
    /\ r \in 1..Len(requests)
    /\ requests[r].route = "assignees"
    /\ requests[r].pc = "running"
    /\ LET tickets == fetchAllTickets(requests[r].query.departmentIds,
                                      requests[r].query.agentId)
       IN /\ requests' = [requests EXCEPT ![r].tickets = tickets,
                                          ![r].pc = "building"]
          /\ cachedActiveTickets' =
                 SelectSeq(tickets, LAMBDA t : ToLowerCase(t.status) \in activeStatuses)
    /\ UNCHANGED <<clock, assigneeCachePayload, assigneeCacheTime,
                   assigneeInFlightPromise, metricsCachePayload, metricsCacheTime,
                   metricsInFlightPromise, agentIdToName,
                   reconVars, tableVars, routeVars,
                   deptCacheVars, limiterVars, pagingVars>>

\* agentIdToName after the rebuild from members (the earlier rebuild from
\* users is overwritten in the same turn)
MemberNames(members) ==
    [id \in {members[i].id : i \in {j \in 1..Len(members) :
                                         members[j].id # "" /\ members[j].name # ""}} |->
        LET i == CHOOSE j \in 1..Len(members) :
                     /\ members[j].id = id /\ members[j].name # ""
                     /\ \A k \in (j + 1)..Len(members) :
                            ~(members[k].id = id /\ members[k].name # "")
        IN members[i].name]

\* the promise from the department agents to its return, and the
\* continuations; elapsed is the time between the two readings of Date.now()
AssigneesPayloadBuilt(r, elapsed) ==
    /\ r \in 1..Len(requests)
    /\ requests[r].route = "assignees"
    /\ requests[r].pc = "building"
    /\ LET payload == AssigneesPayload(requests[r].tickets, clock, clock + elapsed)
       IN /\ assigneeCachePayload' = payload
          /\ assigneeCacheTime' = clock
          /\ assigneeInFlightPromise' = 0
          /\ agentIdToName' = MemberNames(payload.members)
          /\ requests' = Settle("assignees", r, Ok(payload))
    /\ UNCHANGED <<clock, cachedActiveTickets, metricsCachePayload, metricsCacheTime,
                   metricsInFlightPromise, reconVars, tableVars, routeVars,
                   deptCacheVars, limiterVars, pagingVars>>

\* an upstream call of the promise fails after its retries
AssigneesFails(r) ==
    /\ r \in 1..Len(requests)
    /\ requests[r].route = "assignees"
    /\ requests[r].pc \in {"running", "building"}
    /\ assigneeInFlightPromise' = 0
    /\ requests' = Settle("assignees", r, ServerError)
    /\ UNCHANGED <<clock, assigneeCachePayload, assigneeCacheTime, cachedActiveTickets,
                   metricsCachePayload, metricsCacheTime, metricsInFlightPromise,
                   agentIdToName,
                   reconVars, tableVars, routeVars,
                   deptCacheVars, limiterVars, pagingVars>>

\* GET /api/ticket-metrics-simple up to its first await
MetricsRequest ==
    /\ Len(requests) < MaxRequests
    /\ IF cachedActiveTickets = <<>>
       THEN /\ requests' = Append(requests,
                   NewRequest("metrics", NoQuery, "responded", Ok([rows |-> <<>>])))
            /\ UNCHANGED metricsInFlightPromise
       ELSE IF metricsCachePayload # Null /\ clock - metricsCacheTime < CACHE_TTL_MS
       THEN /\ requests' = Append(requests,
                   NewRequest("metrics", NoQuery, "responded", Ok(metricsCachePayload)))
            /\ UNCHANGED metricsInFlightPromise
       ELSE IF metricsInFlightPromise # 0
       THEN /\ requests' = Append(requests,
                   NewRequest("metrics", NoQuery, "awaiting", Null))
            /\ UNCHANGED metricsInFlightPromise
       ELSE /\ requests' = Append(requests,
                   [NewRequest("metrics", NoQuery, "running", Null)
                       EXCEPT !.tickets = cachedActiveTickets])
            /\ metricsInFlightPromise' = Len(requests) + 1
    /\ UNCHANGED <<clock, assigneeCachePayload, assigneeCacheTime,
                   assigneeInFlightPromise, cachedActiveTickets, metricsCachePayload,
                   metricsCacheTime, agentIdToName,
                   reconVars, tableVars, routeVars,
                   deptCacheVars, limiterVars, pagingVars>>

MetricsRowsFetched(r, failed) ==
    /\ r \in 1..Len(requests)
    /\ requests[r].route = "metrics"
    /\ requests[r].pc = "running"
    /\ LET payload ==
           [rows |-> fetchTicketMetricsForTickets(requests[r].tickets, failed)]
       IN /\ metricsCachePayload' = payload
          /\ metricsCacheTime' = clock
          /\ metricsInFlightPromise' = 0
          /\ requests' = Settle("metrics", r, Ok(payload))
    /\ UNCHANGED <<clock, assigneeCachePayload, assigneeCacheTime,
                   assigneeInFlightPromise, cachedActiveTickets,
                   agentIdToName,
                   reconVars, tableVars, routeVars,
                   deptCacheVars, limiterVars, pagingVars>>

\* getAccessToken fails
MetricsFails(r) ==
    /\ r \in 1..Len(requests)
    /\ requests[r].route = "metrics"
    /\ requests[r].pc = "running"
    /\ metricsInFlightPromise' = 0
    /\ requests' = Settle("metrics", r, ServerError)
    /\ UNCHANGED <<clock, assigneeCachePayload, assigneeCacheTime,
                   assigneeInFlightPromise, cachedActiveTickets, metricsCachePayload,
                   metricsCacheTime, agentIdToName,
                   reconVars, tableVars, routeVars,
                   deptCacheVars, limiterVars, pagingVars>>

\* time passes
Tick ==
    /\ clock < ServerStart + MaxClockSteps * ClockStep
    /\ clock' = clock + ClockStep
    /\ UNCHANGED <<requests, assigneeCachePayload, assigneeCacheTime,
                   assigneeInFlightPromise, cachedActiveTickets, metricsCachePayload,
                   metricsCacheTime, metricsInFlightPromise,
                   agentIdToName,
                   reconVars, tableVars, routeVars,
                   deptCacheVars, limiterVars, pagingVars>>

AgingTicket(id, status, assigneeId, departmentId, createdTime, isEscalated) ==
    [id |-> id, status |-> status, assigneeId |-> assigneeId,
     departmentId |-> departmentId, createdTime |-> createdTime,
     isEscalated |-> isEscalated, assignee |-> Null, assigneeName |-> ""]

\* the tickets of the upstream: three days old, unassigned, thirty and a
\* half days old, a half second short of eight days, closed, escalated, and
\* without a createdTime
AgingTickets ==
    { AgingTicket("T1", "Open", "u1", "d1", ServerStart - Days(3), FALSE),
      AgingTicket("T2", "Open", "", "d1", ServerStart - Days(3), FALSE),
      AgingTicket("T3", "On Hold", "u1", "d2",
                  ServerStart - Days(30) - 12 * TicksPerHour, FALSE),
      AgingTicket("T4", "Open", "u1", "d1", ServerStart - Days(8) + 1, FALSE),
      AgingTicket("T5", "Closed", "u1", "d1", ServerStart - Days(40), FALSE),
      AgingTicket("T6", "In Progress", "u1", "", ServerStart - Days(20), TRUE),
      AgingTicket("T7", "Escalated", "u1", "d1", 0, FALSE) }

AgingNext ==
    \/ \E t \in AgingTickets : ZohoHasActive(t)
    \/ AssigneesRequest(NoQuery)
    \/ \E r \in 1..MaxRequests : AssigneesTicketsFetched(r)
    \/ \E r \in 1..MaxRequests, elapsed \in {0, 1} : AssigneesPayloadBuilt(r, elapsed)

SpecAging == IdleInit /\ [][AgingNext]_vars

OkPayloads ==
    {requests[r].response.body :
        r \in {i \in 1..Len(requests) :
                  /\ requests[i].route = "assignees"
                  /\ requests[i].pc = "responded"
                  /\ requests[i].response.status = 200}}

\* C2 (as claimed): in every payload, for every member, status and bucket,
\* the count reported for the member equals the length of the ticket-number
\* lists reported for the member, and so does every per-department count.
C2_CountEqualsListLength ==
    \A payload \in OkPayloads :
        \A i \in 1..Len(payload.members) :
            LET member == payload.members[i]
                byDept == member.departmentAgingCounts
            IN /\ \A k \in StatusKeys \X AgeBuckets :
                      member.tickets.age[k] =
                          SumOver([d \in DOMAIN byDept |-> Len(byDept[d].Tickets[k])])
               /\ \A d \in DOMAIN byDept :
                      \A k \in StatusKeys \X CoarseBuckets :
                          byDept[d].Count[k] = Len(byDept[d].Tickets[k])

\* -------------------------------------- concurrent requests on one server
\* what the upstream lists while the server runs
UpstreamTickets ==
    << AgingTicket("T1", "Open", "u1", "d1", ServerStart - Days(3), FALSE),
       AgingTicket("T2", "Open", "", "d1", ServerStart - Days(3), FALSE),
       AgingTicket("T3", "On Hold", "u1", "d2", ServerStart - Days(20), FALSE) >>

AssigneesQueries ==
    { NoQuery,
      [departmentIds |-> <<"d1">>, agentId |-> ""],
      [departmentIds |-> <<"d2">>, agentId |-> ""],
      [departmentIds |-> <<>>, agentId |-> "u1"] }

Init ==
    /\ zohoActive = UpstreamTickets
    /\ zohoArchived = <<>>
    /\ archRows = <<>>
    /\ archivedCache = <<>>
    /\ reRows = <<>>
    /\ rpc = "fetch"
    /\ TableIdle
    /\ RouteIdle
    /\ ServerIdle

Next ==
    \/ \E query \in AssigneesQueries : AssigneesRequest(query)
    \/ \E r \in 1..MaxRequests : AssigneesTicketsFetched(r)
    \/ \E r \in 1..MaxRequests, elapsed \in {0, 1} : AssigneesPayloadBuilt(r, elapsed)
    \/ \E r \in 1..MaxRequests : AssigneesFails(r)
    \/ MetricsRequest
    \/ \E r \in 1..MaxRequests, failed \in SUBSET {"T1", "T3"} :
           MetricsRowsFetched(r, failed)
    \/ \E r \in 1..MaxRequests : MetricsFails(r)
    \/ Tick

Spec == Init /\ [][Next]_vars

\* the payload of a request that is alone on the server
OwnPayload(query) ==
    AssigneesPayload(fetchAllTickets(query.departmentIds, query.agentId),
                     clock, clock)

\* C10 (as claimed): every successful response of the assignee route is the
\* payload computed from the tickets fetched for that request's own query.
C10_NoCrossTalk ==
    \A r \in 1..Len(requests) :
        (/\ requests[r].route = "assignees"
         /\ requests[r].pc = "responded"
         /\ requests[r].response.status = 200)
            => requests[r].response.body = OwnPayload(requests[r].query)

\* ------------------------------------------- agent names on one server
NamedTicket(id, assigneeId, assignee, assigneeName, createdTime) ==
    [AgingTicket(id, "Open", assigneeId, "d1", createdTime, FALSE)
        EXCEPT !.assignee = assignee, !.assigneeName = assigneeName]

\* a ticket of u1 (upstream display name "Ann") whose embedded assignee says
\* "Ann L.", and a ticket without assignee id that carries an assigneeName
NameTickets ==
    << NamedTicket("N1", "u1", Assignee("Ann L.", "", "", ""), "",
                   ServerStart - Days(3)),
       NamedTicket("N2", "", Null, "Bob", ServerStart - Days(2)) >>

NoPerfQuery == [agentId |-> "", fromDate |-> 0, toDate |-> 0]

NamesInit ==
    /\ zohoActive = NameTickets
    /\ zohoArchived = <<>>
    /\ archRows = <<>>
    /\ archivedCache = <<>>
    /\ reRows = <<>>
    /\ rpc = "fetch"
    /\ TableIdle
    /\ RouteIdle
    /\ ServerIdle

NamesNext ==
    \/ AssigneesRequest(NoQuery)
    \/ \E r \in 1..MaxRequests : AssigneesTicketsFetched(r)
    \/ \E r \in 1..MaxRequests : AssigneesPayloadBuilt(r, 0)
    \/ MetricsRequest
    \/ \E r \in 1..MaxRequests, failed \in SUBSET {"N1"} : MetricsRowsFetched(r, failed)
    \/ AgentPerformanceRoute(NoPerfQuery)
    \/ Tick

SpecNames == NamesInit /\ [][NamesNext]_vars

\* the requests of /api/ticket-metrics-simple that built their rows themselves
MetricsBuilders ==
    {r \in 1..Len(requests) :
        /\ requests[r].route = "metrics"
        /\ requests[r].tickets # <<>>
        /\ requests[r].pc = "responded"
        /\ requests[r].response.status = 200}

\* C11 (as claimed): aggregating the same input twice gives the same output:
\* two runs of the metrics rows over the same tickets (with the same upstream
\* answers) return the same rows, whatever else the server did in between.
C11_SameInputSameOutput ==
    \A i, j \in MetricsBuilders :
        (/\ requests[i].tickets = requests[j].tickets
         /\ Len(requests[i].response.body.rows) = Len(requests[j].response.body.rows))
            => requests[i].response.body = requests[j].response.body

\* C12 (as claimed): a response of the metrics rows is never built from a
\* partial fetch: every ticket of the input that has a createdTime has its
\* row in a successful response.
C12_NoPartialAggregation ==
    \A r \in MetricsBuilders :
        \A i \in 1..Len(requests[r].tickets) :
            requests[r].tickets[i].createdTime # 0 =>
                \E k \in 1..Len(requests[r].response.body.rows) :
                    requests[r].response.body.rows[k].ticketNumber
                        = requests[r].tickets[i].id

\* C15 (as claimed): for every ticket the upstream lists, the agent name of
\* its metrics row, of its archived row and of its agent-performance entry
\* is the same name, the one of the chain name map, embedded assignee,
\* assigneeName, "Unassigned".
C15_UniformAgentName ==
    \A i \in 1..Len(zohoActive) :
        /\ metricsAgentName(zohoActive[i]) = archivedAgentName(zohoActive[i])
        /\ perfResponse # Null =>
               nameFromTicket(zohoActive[i]) = metricsAgentName(zohoActive[i])

\* ------------------------------------ /api/zoho-department-ticket-counts
\* the counter of the department's ticketStatusCountMap the ticket
\* increments; "" for none
DeptStatusCountKey(ticket) ==
    LET normalizedStatus == NormalizedStatus(ticket)
    IN IF IsUnassignedAssignee(ticket) /\ normalizedStatus # "closed" THEN "unassigned"
       ELSE IF normalizedStatus = "escalated" \/ ticket.isEscalated THEN "escalated"
       ELSE IF normalizedStatus \in {"open", "hold", "closed", "inProgress"}
            THEN normalizedStatus
       ELSE ""

departmentTicketCounts(tickets) ==
    [i \in 1..Len(departmentList) |->
        [id |-> departmentList[i],
         tickets |->
            [c \in StatusCounters |->
                CountWhere(tickets,
                    LAMBDA t : /\ t.departmentId = departmentList[i]
                               /\ DeptStatusCountKey(t) = c)]]]

\* the first GET /api/zoho-department-ticket-counts after the server start:
\* nothing cached, nothing in flight
DepartmentTicketCountsRoute ==
    /\ Len(requests) < MaxRequests
    /\ \A r \in 1..Len(requests) : requests[r].route # "deptCounts"
    /\ LET tickets == fetchAllTickets(<<>>, "")
       IN requests' = Append(requests,
              [NewRequest("deptCounts", NoQuery, "responded",
                          Ok([departmentTicketCounts |-> departmentTicketCounts(tickets)]))
                  EXCEPT !.tickets = tickets])
    /\ UNCHANGED <<clock, assigneeCachePayload, assigneeCacheTime,
                   assigneeInFlightPromise, cachedActiveTickets, metricsCachePayload,
                   metricsCacheTime, metricsInFlightPromise, agentIdToName,
                   reconVars, tableVars, routeVars,
                   deptCacheVars, limiterVars, pagingVars>>

\* assigned and unassigned, flagged and not, open, closed and on hold
EscalationTickets ==
    { AgingTicket("E1", "In Progress", "u1", "d1", ServerStart - Days(3), TRUE),
      AgingTicket("E2", "Open", "", "d1", ServerStart - Days(3), TRUE),
      AgingTicket("E3", "Closed", "u1", "d2", ServerStart - Days(3), TRUE),
      AgingTicket("E4", "On Hold", "u1", "d1", ServerStart - Days(3), FALSE) }

EscalationNext ==
    \/ \E t \in EscalationTickets : ZohoHasActive(t)
    \/ AssigneesRequest(NoQuery)
    \/ \E r \in 1..MaxRequests : AssigneesTicketsFetched(r)
    \/ \E r \in 1..MaxRequests : AssigneesPayloadBuilt(r, 0)
    \/ DepartmentTicketCountsRoute

SpecEscalation == IdleInit /\ [][EscalationNext]_vars

\* the requests that built a status map from tickets they fetched themselves
StatusBuilders(route) ==
    {r \in 1..Len(requests) :
        /\ requests[r].route = route
        /\ requests[r].pc = "responded"
        /\ requests[r].response.status = 200
        /\ requests[r].tickets # <<>>}

\* the base-status counters: every counter but escalated and unassigned
BaseCounters == {"open", "closed", "hold", "inProgress"}

\* the per-status totals of a successful response, one per agent or department
StatusTotals(r) ==
    IF requests[r].route = "assignees"
    THEN [i \in 1..Len(requests[r].response.body.members) |->
             requests[r].response.body.members[i].tickets.status]
    ELSE [i \in 1..Len(requests[r].response.body.departmentTicketCounts) |->
             requests[r].response.body.departmentTicketCounts[i].tickets]

TotalOf(r, counters) ==
    SumOver([k \in (1..Len(StatusTotals(r))) \X counters |-> StatusTotals(r)[k[1]][k[2]]])

\* tickets one of the status maps of the route has an entry for
Counted(r) ==
    IF requests[r].route = "assignees" THEN requests[r].tickets
    ELSE SelectSeq(requests[r].tickets,
                   LAMBDA t : t.departmentId \in SeqToSet(departmentList))

RoutesResolved(status) == status \in {"closed", "resolved"}

\* steps 7 and 8 of the route: one entry per agent name of the metrics rows
RoutesAgents(allTickets) ==
    LET metricRows == fetchTicketMetricsForTickets(allTickets, {})
        names == {metricRows[i].agentName : i \in 1..Len(metricRows)}
    IN [n \in names |->
           LET ids == {metricRows[i].ticketNumber :
                          i \in {j \in 1..Len(metricRows) : metricRows[j].agentName = n}}
               resolvedIds == {id \in ids : RoutesResolved(StatusMapLocal(allTickets, id))}
           IN [agentName |-> n,
               ticketsCreated |-> Cardinality(ids),
               ticketsResolved |-> Cardinality(resolvedIds),
               pendingTickets |-> Cardinality(ids \ resolvedIds)]]

\* GET /api/agent-performance of registerAgentPerformanceRoutes, no query
AgentPerformanceRoutes ==
    /\ Len(requests) < MaxRequests
    /\ \A r \in 1..Len(requests) : requests[r].route # "agentPerformanceRoutes"
    /\ LET allTickets == fetchAllTickets(<<>>, "") \o fetchAllArchivedTickets
       IN requests' = Append(requests,
              [NewRequest("agentPerformanceRoutes", NoQuery, "responded",
                          Ok([agents |-> IF allTickets = <<>> THEN <<>>
                                         ELSE RoutesAgents(allTickets)]))
                  EXCEPT !.tickets = allTickets])
    /\ UNCHANGED <<clock, assigneeCachePayload, assigneeCacheTime,
                   assigneeInFlightPromise, cachedActiveTickets, metricsCachePayload,
                   metricsCacheTime, metricsInFlightPromise, agentIdToName,
                   reconVars, tableVars, routeVars,
                   deptCacheVars, limiterVars, pagingVars>>

\* one ticket of u1 per status the upstream can report
StatusTickets ==
    { AgingTicket(id, status, "u1", "d1", ServerStart - Days(3), FALSE) :
        id \in {"R1", "R2"},
        status \in {"Open", "Closed", "Resolved", "Archived", "Completed"} }

ResolvedNext ==
    \/ \E t \in StatusTickets : ZohoHasActive(t)
    \/ \E t \in StatusTickets : ZohoHasArchived(t)
    \/ AgentPerformanceRoute(NoPerfQuery)
    \/ AgentPerformanceRoutes

SpecResolved == IdleInit /\ [][ResolvedNext]_vars

\* C14 (as claimed): one ticket list gives one resolved total: the two
\* agent-performance aggregators, run over the same tickets (each id listed
\* once), count the same number of tickets as resolved.
C14_OneResolvedPredicate ==
    \A r \in 1..Len(requests) :
        (/\ requests[r].route = "agentPerformanceRoutes"
         /\ perfRequest # Null
         /\ perfAllTickets # <<>>
         /\ requests[r].tickets = perfAllTickets
         /\ UniqueIds(perfAllTickets))
            => SumOver([n \in DOMAIN requests[r].response.body.agents |->
                           requests[r].response.body.agents[n].ticketsResolved])
                   = perfResponse.summary.totalResolved

\* ------------------------- the created totals of the performance views
\* C16 mutant of normalizedRows: the created total is the upstream count
normalizedRowsUpstreamCreated(rows) ==
    [k \in DOMAIN rows |->
        [agentName |-> FirstTruthy(<<rows[k].agentName, "Unassigned">>),
         ticketsCreated |-> rows[k].ticketsCreated,
         ticketsResolved |-> rows[k].ticketsResolved,
         pendingCount |-> rows[k].pendingCount]]

\* AgentPerformanceTable.normalizedRows over the rows of /api/agent-performance
normalizedRows(rows) ==
    [k \in DOMAIN rows |->
        LET resolved == rows[k].ticketsResolved
            pending == rows[k].pendingCount
        IN [agentName |-> FirstTruthy(<<rows[k].agentName, "Unassigned">>),
            ticketsCreated |-> resolved + pending,
            ticketsResolved |-> resolved,
            pendingCount |-> pending]]

\* summary of the performance charts: the totals of its cards
ChartSummary(rows) ==
    LET totalResolved == SumOver([k \in DOMAIN rows |-> rows[k].ticketsResolved])
        totalPending == SumOver([k \in DOMAIN rows |-> rows[k].pendingCount])
    IN [totalCreated |-> totalResolved + totalPending,
        totalResolved |-> totalResolved]

\* C16: in the performance table, the charts and the summary of the route,
\* the created total is the resolved total plus the pending total of the
\* same rows, whatever count of created tickets the rows bring along.
C16_CreatedIsResolvedPlusPending ==
    (perfResponse # Null /\ perfAllTickets # <<>>) =>
        LET rows == perfResponse.agents
            shown == normalizedRows(rows)
            resolved == SumOver([k \in DOMAIN rows |-> rows[k].ticketsResolved])
            pending == SumOver([k \in DOMAIN rows |-> rows[k].pendingCount])
        IN /\ \A k \in DOMAIN shown :
                  /\ shown[k].ticketsResolved = rows[k].ticketsResolved
                  /\ shown[k].pendingCount = rows[k].pendingCount
                  /\ shown[k].ticketsCreated
                         = shown[k].ticketsResolved + shown[k].pendingCount
           /\ ChartSummary(rows).totalCreated = resolved + pending
           /\ ChartSummary(rows).totalResolved = resolved
           /\ perfResponse.summary.totalCreated = resolved + pending
           /\ perfResponse.summary.totalResolved = resolved
           /\ perfResponse.summary.totalPending = pending

\* a row whose own count of created tickets is not its resolved plus pending
C16_Witness ==
    /\ perfResponse # Null
    /\ perfAllTickets # <<>>
    /\ \E k \in DOMAIN perfResponse.agents :
           perfResponse.agents[k].ticketsCreated
               # perfResponse.agents[k].ticketsResolved
                     + perfResponse.agents[k].pendingCount

\* ------------------------------------ the agent-wise age table (frontend)
\* the lists of the departments, one after the other
RECURSIVE FlatMap(_, _)
FlatMap(byDept, key) ==
    IF DOMAIN byDept = {} THEN <<>>
    ELSE LET d == CHOOSE x \in DOMAIN byDept : TRUE
         IN byDept[d].Tickets[key]
                \o FlatMap([x \in DOMAIN byDept \ {d} |-> byDept[x]], key)

\* aggregateTickets(agentRow, ageProp, status), with the selectedDepartmentId
\* of the component ("" when no department is selected)
aggregateTickets(agentRow, ageProp, status, selectedDepartmentId) ==
    IF selectedDepartmentId = ""
    THEN FlatMap(agentRow.departmentAgingCounts, <<status, ageProp>>)
    ELSE IF selectedDepartmentId \in DOMAIN agentRow.departmentAgingCounts
    THEN agentRow.departmentAgingCounts[selectedDepartmentId].Tickets[<<status, ageProp>>]
    ELSE <<>>

countFromArray(agentRow, ageProp, status, selectedDepartmentId) ==
    Len(aggregateTickets(agentRow, ageProp, status, selectedDepartmentId))

\* C17 mutant of TotalTicketCount: the week columns are added to the total
TotalTicketCountAllColumns(agentRow, selectedDepartmentId) ==
    SumOver([k \in StatusKeys \X AgeBuckets |->
                countFromArray(agentRow, k[2], k[1], selectedDepartmentId)])

\* the "Total Ticket Count" cell of AgentAgeTable: the three age columns by
\* the four statuses
TotalTicketCount(agentRow, selectedDepartmentId) ==
    SumOver([k \in StatusKeys \X CoarseBuckets |->
                countFromArray(agentRow, k[2], k[1], selectedDepartmentId)])

\* ages on both sides of every boundary of the coarse buckets, in two
\* departments
BoundaryTickets ==
    { AgingTicket("B1", "Open", "u1", "d1", ServerStart, FALSE),
      AgingTicket("B2", "Open", "u1", "d1", ServerStart - Days(16) + 1, FALSE),
      AgingTicket("B3", "On Hold", "u1", "d2", ServerStart - Days(16), FALSE),
      AgingTicket("B4", "Open", "u1", "d1", ServerStart - Days(30), FALSE),
      AgingTicket("B5", "Open", "u1", "d2", ServerStart - Days(30) - 1, FALSE),
      AgingTicket("B6", "In Progress", "u1", "d2", ServerStart - Days(31), TRUE) }

\* the upstream lists up to MaxTickets of them, each once
BoundaryLists ==
    {list \in UNION {[1..n -> BoundaryTickets] : n \in 1..MaxTickets} :
        \A i, j \in DOMAIN list : list[i] = list[j] => i = j}

BucketsInit ==
    /\ zohoActive \in BoundaryLists
    /\ zohoArchived = <<>>
    /\ archRows = <<>>
    /\ archivedCache = <<>>
    /\ reRows = <<>>
    /\ rpc = "fetch"
    /\ TableIdle
    /\ RouteIdle
    /\ ServerIdle

BucketsNext ==
    \/ AssigneesRequest(NoQuery)
    \/ \E r \in 1..MaxRequests : AssigneesTicketsFetched(r)
    \/ \E r \in 1..MaxRequests : AssigneesPayloadBuilt(r, 0)

SpecBuckets == BucketsInit /\ [][BucketsNext]_vars

\* the ticket numbers an agent row lists for a department, any status and
\* any of the three age columns
ListedIn(agentRow, depId) ==
    UNION {SeqToSet(aggregateTickets(agentRow, k[2], k[1], depId)) :
              k \in StatusKeys \X CoarseBuckets}

\* C17: with no department selected, the total of an agent row is the
\* number of tickets in the union of what the row lists per department, all
\* of them tickets of that agent: no ticket is counted twice.
C17_TotalIsUnionOverDepartments ==
    \A r \in StatusBuilders("assignees") :
        \A i \in 1..Len(requests[r].response.body.members) :
            LET agentRow == requests[r].response.body.members[i]
                union == UNION {ListedIn(agentRow, d) :
                                   d \in DOMAIN agentRow.departmentAgingCounts}
                mine == {requests[r].tickets[j].id :
                            j \in {n \in 1..Len(requests[r].tickets) :
                                      AssigneeKey(requests[r].tickets[n]) = agentRow.id}}
            IN /\ TotalTicketCount(agentRow, "") = Cardinality(union)
               /\ union \subseteq mine

\* u1 has counted tickets in both departments
C17_Witness ==
    \E r \in StatusBuilders("assignees") :
        \E i \in 1..Len(requests[r].response.body.members) :
            LET agentRow == requests[r].response.body.members[i]
            IN /\ agentRow.id = "u1"
               /\ ListedIn(agentRow, "d1") # {}
               /\ ListedIn(agentRow, "d2") # {}
               /\ TotalTicketCount(agentRow, "") >= 2

\* the age of a ticket when the payload of the server's first run is built
AgeAtStart(ticket) == ServerStart - ticket.createdTime

\* the ticket is in the coarse list of its status and the bucket, in the
\* agent row the payload has for its assignee
InCoarseList(payload, ticket, bucket) ==
    \E i \in 1..Len(payload.members) :
        /\ payload.members[i].id = AssigneeKey(ticket)
        /\ ticket.id \in SeqToSet(aggregateTickets(payload.members[i], bucket,
                                                  NormalizedStatus(ticket),
                                                  DeptKey(ticket)))

\* the per-member count of a status and a coarse bucket
CoarseCount(payload, assigneeId, status, bucket) ==
    SumOver([i \in {j \in 1..Len(payload.members) : payload.members[j].id = assigneeId} |->
                payload.members[i].tickets.age[<<status, bucket>>]])

\* C18 (as claimed): an age in [0, 16) days is listed in the first coarse
\* bucket, an age in [16, 31) other than exactly 30 days in the second, an
\* age above 30 days in the third, and an age of exactly 30 days in neither
\* the second nor the third.
C18_ThirtyDaysInNoBucket ==
    \A r \in StatusBuilders("assignees") :
        \A i \in 1..Len(requests[r].tickets) :
            LET ticket == requests[r].tickets[i]
                age == AgeAtStart(ticket)
                payload == requests[r].response.body
            IN /\ (age >= 0 /\ age < Days(16))
                      => InCoarseList(payload, ticket, "BetweenOneAndFifteenDays")
               /\ (age >= Days(16) /\ age < Days(31) /\ age # Days(30))
                      => InCoarseList(payload, ticket, "BetweenSixteenAndThirtyDays")
               /\ age > Days(30)
                      => InCoarseList(payload, ticket, "OlderThanThirtyDays")
               /\ age = Days(30)
                      => /\ ~InCoarseList(payload, ticket, "BetweenSixteenAndThirtyDays")
                         /\ ~InCoarseList(payload, ticket, "OlderThanThirtyDays")

\* C18 (amended): an age in [0, 16) days goes to the first coarse bucket and
\* an age in [16, 31) to the second; the third takes an age of 31 days or
\* more in the ticket lists and an age above 30 days in the per-member
\* counts; a ticket of exactly 30 days is in the second bucket and not in
\* the third.
C18_ThirtyDaysInSecondBucket ==
    \A r \in StatusBuilders("assignees") :
        LET payload == requests[r].response.body
            tickets == requests[r].tickets
        IN /\ \A i \in 1..Len(tickets) :
                  LET age == AgeAtStart(tickets[i])
                  IN /\ InCoarseList(payload, tickets[i], "BetweenOneAndFifteenDays")
                         <=> (age >= 0 /\ age < Days(16))
                     /\ InCoarseList(payload, tickets[i], "BetweenSixteenAndThirtyDays")
                         <=> (age >= Days(16) /\ age < Days(31))
                     /\ InCoarseList(payload, tickets[i], "OlderThanThirtyDays")
                         <=> age >= Days(31)
           /\ \A status \in StatusKeys :
                  LET Mine(t) == AssigneeKey(t) = "u1" /\ NormalizedStatus(t) = status
                  IN /\ CoarseCount(payload, "u1", status, "BetweenOneAndFifteenDays")
                         = CountWhere(tickets,
                               LAMBDA t : Mine(t) /\ AgeAtStart(t) >= 0
                                          /\ AgeAtStart(t) < Days(16))
                     /\ CoarseCount(payload, "u1", status, "BetweenSixteenAndThirtyDays")
                         = CountWhere(tickets,
                               LAMBDA t : Mine(t) /\ AgeAtStart(t) >= Days(16)
                                          /\ AgeAtStart(t) < Days(31))
                     /\ CoarseCount(payload, "u1", status, "OlderThanThirtyDays")
                         = CountWhere(tickets,
                               LAMBDA t : Mine(t) /\ AgeAtStart(t) > Days(30))

\* a payload was built from a ticket of exactly 30 days, and one from a
\* ticket a half second older
C18_Witness ==
    /\ \E r \in StatusBuilders("assignees") :
           \E i \in 1..Len(requests[r].tickets) :
               /\ AgeAtStart(requests[r].tickets[i]) = Days(30)
               /\ InCoarseList(requests[r].response.body, requests[r].tickets[i],
                               "BetweenSixteenAndThirtyDays")
               /\ \E j \in 1..Len(requests[r].tickets) :
                      AgeAtStart(requests[r].tickets[j]) = Days(30) + 1

\* ------------------------------------------ the order of the table rows
resolvedStatusSet ==
    { <<"c", "l", "o", "s", "e", "d">>,
      <<"r", "e", "s", "o", "l", "v", "e", "d">>,
      <<"a", "r", "c", "h", "i", "v", "e", "d">> }

\* name || "Unknown"
OrUnknown(name) ==
    IF name = <<>> THEN <<"U", "n", "k", "n", "o", "w", "n">> ELSE name

\* the keys of byAgent in the order ensureAgent created them
RECURSIVE KeysInOrder(_, _)
KeysInOrder(names, seen) ==
    IF names = <<>> THEN <<>>
    ELSE IF Head(names) \in seen THEN KeysInOrder(Tail(names), seen)
    ELSE <<Head(names)>> \o KeysInOrder(Tail(names), seen \cup {Head(names)})

\* Object.values(byAgent).map(...): one row per agent of the metrics rows,
\* the pending rows and the archived rows, in the order of first appearance
byAgent(metrics, pending, archived) ==
    LET names == [i \in 1..Len(metrics) |-> OrUnknown(metrics[i].agentName)]
                   \o [i \in 1..Len(pending) |-> OrUnknown(pending[i].name)]
                   \o [i \in 1..Len(archived) |-> OrUnknown(archived[i].agentName)]
        keys == KeysInOrder(names, {})
        Row(key) ==
            LET Mine(row) == OrUnknown(row.agentName) = key
                MyPending(row) == OrUnknown(row.name) = key
                Resolved(row) ==
                    Mine(row) /\ normalizeStatus(row.status) \in resolvedStatusSet
            IN [agentName |-> key,
                ticketsCreated |-> Len(SelectSeq(metrics, Mine)),
                ticketsResolved |-> Len(SelectSeq(metrics, Resolved))
                                      + Len(SelectSeq(archived, Resolved)),
                pendingCount |-> Len(SelectSeq(pending, MyPending)),
                departmentName |->
                    IF SelectSeq(metrics, Mine) # <<>>
                    THEN Head(SelectSeq(metrics, Mine)).departmentName
                    ELSE <<"A", "l", "l", " ", "D", "e", "p", "a", "r", "t",
                           "m", "e", "n", "t", "s">>]
    IN [k \in 1..Len(keys) |-> Row(keys[k])]

\* C19 mutant of agentPerformanceRows: the rows keep the order of byAgent
agentPerformanceRowsInsertionOrder(metrics, pending, archived) ==
    byAgent(metrics, pending, archived)

agentPerformanceRows(metrics, pending, archived) ==
    SortByAgentName(byAgent(metrics, pending, archived))

agentPerformanceRowsForDisplay(rows, term) ==
    LET q == toLowerCase(trim(term))
        Keep(row) == includes(toLowerCase(row.agentName), q)
    IN IF q = <<>> THEN rows ELSE SelectSeq(rows, Keep)

\* AgentPerformanceTable.sortedRows: by tickets resolved, highest first; the
\* sort is stable
RECURSIVE InsertByResolved(_, _)
InsertByResolved(row, sorted) ==
    IF sorted = <<>> THEN <<row>>
    ELSE IF Head(sorted).ticketsResolved > row.ticketsResolved
         THEN <<Head(sorted)>> \o InsertByResolved(row, Tail(sorted))
         ELSE <<row>> \o sorted

RECURSIVE sortedRows(_)
sortedRows(rows) ==
    IF rows = <<>> THEN <<>>
    ELSE InsertByResolved(Head(rows), sortedRows(Tail(rows)))

\* pending rows of the members data the parent holds
PendingData == << [name |-> <<"C", "a", "t">>], [name |-> AnnLee] >>

PerformanceRows == agentPerformanceRows(SortedMetrics, PendingData, FilteredArchived)

LeaderboardRows ==
    sortedRows(normalizedRows(agentPerformanceRowsForDisplay(PerformanceRows, searchTerm)))

NameBefore(a, b) == TextBefore(toLowerCase(a.agentName), toLowerCase(b.agentName))

NameSorted(rows) ==
    \A i, j \in 1..Len(rows) : i < j => ~NameBefore(rows[j], rows[i])

\* C19: the metrics rows, the archived rows and the performance rows are in
\* case-insensitive agent-name order; the leaderboard is in descending order
\* of tickets resolved, and rows with equal tickets resolved are in ascending
\* agent-name order
C19_NameOrderAndLeaderboard ==
    /\ NameSorted(SortedMetrics)
    /\ NameSorted(FilteredArchived)
    /\ NameSorted(PerformanceRows)
    /\ \A i, j \in 1..Len(LeaderboardRows) :
           i < j =>
               /\ LeaderboardRows[i].ticketsResolved >= LeaderboardRows[j].ticketsResolved
               /\ (LeaderboardRows[i].ticketsResolved = LeaderboardRows[j].ticketsResolved
                      => ~NameBefore(LeaderboardRows[j], LeaderboardRows[i]))

PositionOf(rows, name) == CHOOSE k \in 1..Len(rows) : rows[k].agentName = name

\* two agents tie on tickets resolved and byAgent holds them in the reverse
\* of their name order, while the leaderboard is not in name order
C19_Witness ==
    LET unsorted == byAgent(SortedMetrics, PendingData, FilteredArchived)
    IN /\ searchTerm = <<>>
       /\ ~NameSorted(LeaderboardRows)
       /\ \E i, j \in 1..Len(LeaderboardRows) :
              /\ i < j
              /\ LeaderboardRows[i].ticketsResolved = LeaderboardRows[j].ticketsResolved
              /\ NameBefore(LeaderboardRows[i], LeaderboardRows[j])
              /\ PositionOf(unsorted, LeaderboardRows[j].agentName)
                     < PositionOf(unsorted, LeaderboardRows[i].agentName)

\* ------------------------------------------------- the date-range filters
\* rows created around the first instant of day 20 and the last second of
\* day 30: half a second before day 20, 00:00:00.0 of day 20, 23:59:59.0 and
\* 23:59:59.5 of day 30, 00:00:00.0 of day 31
DateRowTimes ==
    << Days(20) - 1, Days(20), Days(31) - 2, Days(31) - 1, Days(31) >>

DatedMetricsRows ==
    [i \in 1..Len(DateRowTimes) |->
        [MetricsRow(AnnLee, <<"1">>, <<"O", "p", "e", "n">>, 20, <<>>)
            EXCEPT !.createdTime = DateRowTimes[i]]]

DatedArchivedRows ==
    [i \in 1..Len(DateRowTimes) |->
        [ArchivedRow(AnnLee, <<"1">>, 20, Null)
            EXCEPT !.createdTime = DateRowTimes[i]]]

\* upstream tickets created at 00:00:00.0, at 01:00:00.0 and at 23:59:59.5 of
\* day 300, the date the queries of PerfQueries name
DateTickets ==
    { [id |-> i, status |-> "Open", assigneeId |-> "u1",
       assignee |-> Null, assigneeName |-> "",
       createdTime |-> c, closedTime |-> 0] :
      i \in {"A1"},
      c \in {Days(300), Days(300) + TicksPerHour, Days(301) - 1} }

DatesInit ==
    /\ ReconIdle
    /\ RouteIdle
    /\ ServerIdle
    /\ metricsRows = DatedMetricsRows
    /\ archivedRows = DatedArchivedRows
    /\ selectedAgentNames = {}
    /\ searchTerm = <<>>
    /\ startDate = 0
    /\ endDate = 0
    /\ metricsPage = 1
    /\ archivedPage = 1

DatesNext ==
    \/ \E d \in DateChoices : SetStartDate(d)
    \/ \E d \in DateChoices : SetEndDate(d)
    \/ \E t \in DateTickets : ZohoHasActive(t)
    \/ \E t \in DateTickets : ZohoHasArchived(t)
    \/ \E query \in PerfQueries : AgentPerformanceRoute(query)

SpecDates == DatesInit /\ [][DatesNext]_vars

DayOf(time) == time \div TicksPerDay

\* the time is on one of the dates from startDay to endDay (0: no such end)
OnDatesBetween(time, startDay, endDay) ==
    /\ time # 0
    /\ (startDay = 0 \/ DayOf(time) >= startDay)
    /\ (endDay = 0 \/ DayOf(time) <= endDay)

Keeps(rows, row) == \E k \in 1..Len(rows) : rows[k] = row

RowsDateRangeInclusive ==
    /\ \A i \in 1..Len(metricsRows) :
           OnDatesBetween(metricsRows[i].createdTime, startDate, endDate)
               => Keeps(filteredMetricsRows(metricsRows, selectedAgentNames, "", {},
                                            startDate, endDate), metricsRows[i])
    /\ \A i \in 1..Len(archivedRows) :
           OnDatesBetween(archivedRows[i].createdTime, startDate, endDate)
               => Keeps(filteredArchivedRows(archivedRows, searchTerm,
                                             startDate, endDate), archivedRows[i])

RouteDateRangeInclusive ==
    perfRequest # Null =>
        \A t \in SeqToSet(zohoActive \o zohoArchived) :
            (/\ perfRequest.agentId \in {"", "all", t.assigneeId}
             /\ OnDatesBetween(t.createdTime, DayOf(perfRequest.fromDate),
                               DayOf(perfRequest.toDate)))
                => Keeps(perfAllTickets, t)

\* C20: a row or ticket created at any time from the start of the start date
\* to the end of the end date passes the date-range filter of the metrics
\* rows, of the archived rows and of /api/agent-performance
C20_DateRangeInclusive == RowsDateRangeInclusive /\ RouteDateRangeInclusive

\* ------------------------------------------------------ the filter clauses
\* AgentPerformanceCharts: filteredRows and effectiveRows over the selected
\* agents and the department ("all" for none)
AllDepartments == <<"a", "l", "l">>

filteredRows(rows, selectedAgents, department) ==
    LET Keep(r) ==
            /\ ~(Cardinality(selectedAgents) > 0 /\ r.agentName \notin selectedAgents)
            /\ ~(department # AllDepartments /\ r.departmentName # department)
    IN SelectSeq(rows, Keep)

effectiveRows(rows, selectedAgents, department) ==
    IF Cardinality(selectedAgents) = 0 /\ department = AllDepartments
    THEN rows
    ELSE filteredRows(rows, selectedAgents, department)

\* a.name.localeCompare(b.name) over the member names of the model
MemberNameRank(name) ==
    CASE name = "Ann" -> 1 [] name = "Unassigned" -> 2 [] OTHER -> 3

RECURSIVE InsertByName(_, _)
InsertByName(row, sorted) ==
    IF sorted = <<>> THEN <<row>>
    ELSE IF MemberNameRank(Head(sorted).name) < MemberNameRank(row.name)
         THEN <<Head(sorted)>> \o InsertByName(row, Tail(sorted))
         ELSE <<row>> \o sorted

RECURSIVE SortByName(_)
SortByName(rows) ==
    IF rows = <<>> THEN <<>>
    ELSE InsertByName(Head(rows), SortByName(Tail(rows)))

\* tableRows of the agent-wise age table: the members kept for the selected
\* department ("" for none) and the selected agent names, mapped and sorted
tableRows(membersData, selectedDepartmentId, agentNames) ==
    LET Keep(agent) ==
            IF selectedDepartmentId # ""
            THEN LET agentHasTickets ==
                         \/ /\ selectedDepartmentId \in DOMAIN agent.departmentTicketCounts
                            /\ agent.departmentTicketCounts[selectedDepartmentId] > 0
                         \/ /\ selectedDepartmentId \in DOMAIN agent.departmentAgingCounts
                            /\ \E k \in StatusKeys \X CoarseBuckets :
                                   agent.departmentAgingCounts[selectedDepartmentId].Count[k] > 0
                     nameMatch == agentNames = {} \/ agent.name \in agentNames
                 IN agentHasTickets /\ nameMatch
            ELSE LET t == agent.tickets.status
                 IN t.open + t.hold + t.escalated + t.unassigned + t.inProgress > 0
        Row(agent) ==
            [name |-> agent.name,
             agingCounts |->
                 IF selectedDepartmentId # ""
                 THEN (IF selectedDepartmentId \in DOMAIN agent.departmentAgingCounts
                       THEN agent.departmentAgingCounts[selectedDepartmentId]
                       ELSE EmptyAgingCounts)
                 ELSE agent.tickets,
             departmentAgingCounts |-> agent.departmentAgingCounts,
             departmentName |->
                 IF selectedDepartmentId = "" THEN <<>>
                 ELSE IF selectedDepartmentId \in DOMAIN departmentsMap
                      THEN departmentsMap[selectedDepartmentId].name
                      ELSE <<>>]
        kept == SelectSeq(membersData, Keep)
    IN SortByName([i \in 1..Len(kept) |-> Row(kept[i])])

\* an open ticket and tickets in a status the route has no counter for
FilterTickets ==
    { AgingTicket("F1", "Open", "u1", "d1", ServerStart - Days(3), FALSE),
      AgingTicket("F2", "Resolved", "u1", "d1", ServerStart - Days(3), FALSE),
      AgingTicket("F3", "Resolved", "u1", "d2", ServerStart - Days(20), FALSE),
      AgingTicket("F4", "Open", "", "d1", ServerStart - Days(3), FALSE) }

FilterLists ==
    {list \in UNION {[1..n -> FilterTickets] : n \in 1..MaxTickets} :
        \A i, j \in DOMAIN list : list[i] = list[j] => i = j}

FiltersInit ==
    /\ zohoActive \in FilterLists
    /\ zohoArchived = <<>>
    /\ archRows = <<>>
    /\ archivedCache = <<>>
    /\ reRows = <<>>
    /\ rpc = "fetch"
    /\ TableIdle
    /\ RouteIdle
    /\ ServerIdle

FiltersNext ==
    \/ AssigneesRequest(NoQuery)
    \/ \E r \in 1..MaxRequests : AssigneesTicketsFetched(r)
    \/ \E r \in 1..MaxRequests : AssigneesPayloadBuilt(r, 0)
    \/ \E n \in 0..Len(MetricsData) : MetricsRowsLoaded(n)

SpecFilters == FiltersInit /\ [][FiltersNext]_vars

RowsOf(rows) == SeqToSet(rows)

NamesOf(rows) == {rows[i].name : i \in 1..Len(rows)}

StatusChoices == { {}, {<<"O", "p", "e", "n">>}, {<<"C", "l", "o", "s", "e", "d">>} }

DepartmentChoices == {"", "d1", "d2"}

\* the metrics rows: with every filter value unset every row passes, and no
\* row that passes with a value set is removed when that value is unset;
\* an empty or blank search term removes no row
MetricsClausesPassWhenUnset ==
    /\ filteredMetricsRows(metricsRows, {}, "", {}, 0, 0) = metricsRows
    /\ \A names \in AgentNameChoices, dep \in DepartmentChoices,
          statuses \in StatusChoices, start \in DateChoices, end \in DateChoices :
           LET set == RowsOf(filteredMetricsRows(metricsRows, names, dep, statuses, start, end))
           IN /\ set \subseteq RowsOf(filteredMetricsRows(metricsRows, {}, dep, statuses, start, end))
              /\ set \subseteq RowsOf(filteredMetricsRows(metricsRows, names, "", statuses, start, end))
              /\ set \subseteq RowsOf(filteredMetricsRows(metricsRows, names, dep, {}, start, end))
              /\ set \subseteq RowsOf(filteredMetricsRows(metricsRows, names, dep, statuses, 0, 0))
    /\ \A term \in {<<>>, <<" ">>} :
           /\ RowsOf(sortedMetricsRows(metricsRows, term)) = RowsOf(metricsRows)
           /\ Len(sortedMetricsRows(metricsRows, term)) = Len(metricsRows)

\* the chart rows: the same for the selected agents and the department
ChartClausesPassWhenUnset ==
    LET rows == agentPerformanceRows(metricsRows, PendingData, <<>>)
    IN /\ effectiveRows(rows, {}, AllDepartments) = rows
       /\ \A names \in AgentNameChoices, dep \in {AllDepartments, <<"I", "T">>, <<"H", "R">>} :
              LET set == RowsOf(effectiveRows(rows, names, dep))
              IN /\ set \subseteq RowsOf(effectiveRows(rows, {}, dep))
                 /\ set \subseteq RowsOf(effectiveRows(rows, names, AllDepartments))

\* the rows of the agent-wise age table, which lists the agents that have
\* tickets: no agent listed with a department or agent names selected is
\* removed when that value is unset
TableClausesPassWhenUnset ==
    assigneeCachePayload # Null =>
        LET members == assigneeCachePayload.members
        IN \A dep \in DepartmentChoices, names \in {{}, {"Ann"}, {"Unassigned"}} :
               LET set == NamesOf(tableRows(members, dep, names))
               IN /\ set \subseteq NamesOf(tableRows(members, dep, {}))
                  /\ set \subseteq NamesOf(tableRows(members, "", names))

\* C21: every filter clause passes every row when its filter value is unset
\* or empty, so unsetting a filter value never removes a row: in the metrics
\* rows, in the chart rows and in the rows of the agent-wise age table
C21_UnsetFilterRemovesNoRow ==
    /\ MetricsClausesPassWhenUnset
    /\ ChartClausesPassWhenUnset
    /\ TableClausesPassWhenUnset

\* -------------------------------------------- rollups over an empty input
chartResolvedSet ==
    resolvedStatusSet \cup {<<"c", "o", "m", "p", "l", "e", "t", "e", "d">>}

\* filteredArchivedByAgent of the charts
filteredArchivedByAgent(rows, selectedAgents, department) ==
    LET Keep(t) ==
            /\ ~(Cardinality(selectedAgents) > 0 /\ t.agentName \notin selectedAgents)
            /\ ~(department # AllDepartments /\ t.departmentName # department)
    IN IF rows = <<>> THEN <<>> ELSE SelectSeq(rows, Keep)

\* years.sort((a, b) => a - b)
RECURSIVE SortedYears(_)
SortedYears(years) ==
    IF years = {} THEN <<>>
    ELSE LET y == CHOOSE x \in years : \A z \in years : x <= z
         IN <<y>> \o SortedYears(years \ {y})

YearlySeries(rows, years) ==
    LET Created(y) ==
            CountWhere(rows, LAMBDA t : /\ t.createdTime # 0
                                        /\ IsValidDate(t.createdTime)
                                        /\ getFullYear(t.createdTime) = y)
        Resolved(y) ==
            CountWhere(rows, LAMBDA t : /\ toLowerCase(t.status) \in chartResolvedSet
                                        /\ t.closedTime # 0
                                        /\ IsValidDate(t.closedTime)
                                        /\ getFullYear(t.closedTime) = y)
    IN [labels |-> years,
        datasets |->
            << [label |-> "Tickets Created",
                data |-> [i \in 1..Len(years) |-> Created(years[i])]],
               [label |-> "Tickets Resolved",
                data |-> [i \in 1..Len(years) |-> Resolved(years[i])]] >>]

YearsIn(rows) ==
    {getFullYear(rows[i].createdTime) :
        i \in {j \in 1..Len(rows) : rows[j].createdTime # 0
                                    /\ IsValidDate(rows[j].createdTime)}}
    \cup {getFullYear(rows[i].closedTime) :
        i \in {j \in 1..Len(rows) : /\ toLowerCase(rows[j].status) \in chartResolvedSet
                                    /\ rows[j].closedTime # 0
                                    /\ IsValidDate(rows[j].closedTime)}}

\* C22 mutant of yearlyData: the two early returns are left out
yearlyDataNoEarlyReturn(rows, selectedAgents, department) ==
    LET filtered == filteredArchivedByAgent(rows, selectedAgents, department)
    IN YearlySeries(filtered, SortedYears(YearsIn(filtered)))

\* yearlyData of the charts: tickets created and resolved by year
yearlyData(rows, selectedAgents, department) ==
    LET filtered == filteredArchivedByAgent(rows, selectedAgents, department)
    IN IF rows = <<>> \/ filtered = <<>>
       THEN [labels |-> <<>>, datasets |-> <<>>]
       ELSE YearlySeries(filtered, SortedYears(YearsIn(filtered)))

\* one ticket, created on day 10 and closed, if it is, on day 400
EmptyCaseTickets ==
    { [id |-> "A1", status |-> s, assigneeId |-> a, departmentId |-> "d1",
       isEscalated |-> FALSE, assignee |-> Null, assigneeName |-> "",
       createdTime |-> 10 * TicksPerDay,
       closedTime |-> IF s = "Closed" THEN 400 * TicksPerDay ELSE 0] :
      s \in {"Open", "Closed"}, a \in {"", "u1"} }

EmptyCaseNext ==
    \/ \E t \in EmptyCaseTickets : ZohoHasActive(t)
    \/ \E query \in PerfQueries : AgentPerformanceRoute(query)
    \/ AgentPerformanceRoutes
    \/ \E n \in 0..Len(ArchivedData) : ArchivedRowsLoaded(n)

SpecEmptyCase == IdleInit /\ [][EmptyCaseNext]_vars

ChartDepartments == {AllDepartments, <<"I", "T">>, <<"H", "R">>}

ChartAgentChoices == AgentNameChoices \cup {{<<"D", "a", "n">>}}

MaxJobs == 4
MaxFailures == 5

\* new Bottleneck({ minTime: 200, maxConcurrent: 3 })
minTime == 200
maxConcurrent == 3

\* the grid of the limiter's clock, in milliseconds
LimiterStep == minTime

\* axiosRetry(axios, { retries: 4, ... })
retries == 4

\* what the upstream answers
UpstreamStatuses == {200, 404, 429, 503}

RECURSIVE Pow2(_)
Pow2(n) == IF n = 0 THEN 1 ELSE 2 * Pow2(n - 1)

\* retryCondition: a response with status 429 or at least 500
retryCondition(status) == status = 429 \/ status >= 500

\* axiosRetry.exponentialDelay: 2^retryNumber * 100 ms plus up to 20 % of
\* it, on the grid of the limiter's clock
exponentialDelay(retryNumber) ==
    LET delay == Pow2(retryNumber) * 100
    IN  {delay + k * LimiterStep :
            k \in {k \in 0..2 : k * LimiterStep * 5 <= delay}}

\* the jobs the limiter counts as running: started and not yet settled
RunningJobs ==
    {j \in 1..Len(limiterJobs) :
        limiterJobs[j].state \in {"requesting", "waitingToRetry"}}

\* how many requests the upstream has answered with an error
RECURSIVE FailuresOf(_)
FailuresOf(jobs) ==
    IF jobs = <<>> THEN 0
    ELSE Head(jobs).retryCount
            + (IF Head(jobs).state = "rejected" THEN 1 ELSE 0)
            + FailuresOf(Tail(jobs))

\* limiter.schedule(() => axios.get(...)), as fetchAllTickets,
\* fetchAllArchivedTickets and fetchTicketMetricsForTickets call it for a
\* page of tickets or the metrics of one ticket: the job joins the queue
LimiterSchedule ==
    /\ Len(limiterJobs) < MaxJobs
    /\ limiterJobs' = Append(limiterJobs,
            [state |-> "queued", retryCount |-> 0, retryIn |-> 0,
             lastStatus |-> 0])
    /\ UNCHANGED limiterSinceLaunch

\* the limiter starts every job as if the spacing and the ceiling were met
LimiterLaunchUnlimited ==
    \E j \in 1..Len(limiterJobs) :
        /\ limiterJobs[j].state = "queued"
        /\ \A i \in 1..(j - 1) : limiterJobs[i].state # "queued"
        /\ limiterJobs' = [limiterJobs EXCEPT ![j].state = "requesting"]
        /\ limiterSinceLaunch' = 0

\* the limiter starts the oldest queued job when fewer than maxConcurrent
\* jobs run and minTime has passed since the last start
LimiterLaunch ==
    \E j \in 1..Len(limiterJobs) :
        /\ limiterJobs[j].state = "queued"
        /\ \A i \in 1..(j - 1) : limiterJobs[i].state # "queued"
        /\ Cardinality(RunningJobs) < maxConcurrent
        /\ limiterSinceLaunch = -1 \/ limiterSinceLaunch >= minTime
        /\ limiterJobs' = [limiterJobs EXCEPT ![j].state = "requesting"]
        /\ limiterSinceLaunch' = 0

\* the upstream answers a request: success resolves the job, a status the
\* retry condition accepts schedules the next attempt while retries remain,
\* anything else rejects the job
UpstreamResponds(j, status) ==
    /\ j \in 1..Len(limiterJobs)
    /\ limiterJobs[j].state = "requesting"
    /\ status # 200 => FailuresOf(limiterJobs) < MaxFailures
    /\ \/ /\ status = 200
          /\ limiterJobs' = [limiterJobs EXCEPT
                ![j].state = "resolved", ![j].lastStatus = status]
       \/ /\ status # 200
          /\ retryCondition(status)
          /\ limiterJobs[j].retryCount < retries
          /\ \E delay \in exponentialDelay(limiterJobs[j].retryCount + 1) :
                limiterJobs' = [limiterJobs EXCEPT
                    ![j].state = "waitingToRetry",
                    ![j].retryCount = @ + 1,
                    ![j].retryIn = delay,
                    ![j].lastStatus = status]
       \/ /\ status # 200
          /\ ~(retryCondition(status) /\ limiterJobs[j].retryCount < retries)
          /\ limiterJobs' = [limiterJobs EXCEPT
                ![j].state = "rejected", ![j].lastStatus = status]
    /\ UNCHANGED limiterSinceLaunch

\* the retry delay of a job has passed: axios sends the request again
RetryFires(j) ==
    /\ j \in 1..Len(limiterJobs)
    /\ limiterJobs[j].state = "waitingToRetry"
    /\ limiterJobs[j].retryIn = 0
    /\ limiterJobs' = [limiterJobs EXCEPT ![j].state = "requesting"]
    /\ UNCHANGED limiterSinceLaunch

\* the limiter can start a job now
CanLaunch ==
    /\ \E j \in 1..Len(limiterJobs) : limiterJobs[j].state = "queued"
    /\ Cardinality(RunningJobs) < maxConcurrent
    /\ limiterSinceLaunch = -1 \/ limiterSinceLaunch >= minTime

\* time passes, never past a retry that is due or a job that can start
LimiterTick ==
    /\ ~CanLaunch
    /\ \A j \in 1..Len(limiterJobs) :
            limiterJobs[j].state = "waitingToRetry"
                => limiterJobs[j].retryIn > 0
    /\ \/ \E j \in 1..Len(limiterJobs) :
                limiterJobs[j].state = "waitingToRetry"
       \/ limiterSinceLaunch \in 0..(minTime - 1)
    /\ limiterJobs' = [j \in 1..Len(limiterJobs) |->
            IF limiterJobs[j].state = "waitingToRetry"
            THEN [limiterJobs[j] EXCEPT !.retryIn = @ - LimiterStep]
            ELSE limiterJobs[j]]
    /\ limiterSinceLaunch' =
            IF limiterSinceLaunch \in 0..(minTime - 1)
            THEN limiterSinceLaunch + LimiterStep
            ELSE limiterSinceLaunch

LimiterRest ==
    UNCHANGED <<clock, requests, assigneeCachePayload, assigneeCacheTime,
                assigneeInFlightPromise, cachedActiveTickets,
                metricsCachePayload, metricsCacheTime, metricsInFlightPromise,
                agentIdToName, deptCacheVars, reconVars, tableVars, routeVars,
                pagingVars>>

LimiterNext ==
    \/ LimiterSchedule /\ LimiterRest
    \/ LimiterLaunch /\ LimiterRest
    \/ \E j \in 1..MaxJobs, status \in UpstreamStatuses :
            UpstreamResponds(j, status) /\ LimiterRest
    \/ \E j \in 1..MaxJobs : RetryFires(j) /\ LimiterRest
    \/ LimiterTick /\ LimiterRest

SpecLimiter == IdleInit /\ [][LimiterNext]_vars

\* a step in which the limiter starts a job
Launches ==
    \E j \in 1..Len(limiterJobs) :
        limiterJobs[j].state = "queued" /\ limiterJobs'[j].state = "requesting"

\* a step in which job j is answered with an error and waits to retry
WaitsToRetry(j) ==
    /\ j \in 1..Len(limiterJobs)
    /\ limiterJobs[j].state = "requesting"
    /\ limiterJobs'[j].state = "waitingToRetry"

\* at most three jobs run, and a rejected job that was answered 429 or 5xx
\* has used its four retries
LimiterInvariant ==
    /\ Cardinality(RunningJobs) <= 3
    /\ \A j \in 1..Len(limiterJobs) :
            LET job == limiterJobs[j]
            IN  /\ job.retryCount <= 4
                /\ job.state = "rejected" /\ job.lastStatus \in {429, 503}
                        => job.retryCount = 4
                /\ job.state = "waitingToRetry"
                        => job.lastStatus \in {429, 503}

MaxDurationMinutes == 1439

TicksPerMinute == 2 * 60

DigitChars == <<"0", "1", "2", "3", "4", "5", "6", "7", "8", "9">>

\* (n).toString() of a non-negative integer
RECURSIVE ToText(_)
ToText(n) ==
    IF n < 10 THEN <<DigitChars[n + 1]>>
    ELSE ToText(n \div 10) \o <<DigitChars[(n % 10) + 1]>>

\* text.padStart(targetLength, "0")
RECURSIVE padStart(_, _)
padStart(text, targetLength) ==
    IF Len(text) >= targetLength THEN text
    ELSE padStart(<<"0">> \o text, targetLength)

\* Math.round((hrs % 1) * 60), hrs in ticks
RoundedMinutes(hrs) ==
    ((hrs % TicksPerHour) * 60 + TicksPerHour \div 2) \div TicksPerHour

\* formatHoursToText(hrs): hours as "H:MM", hrs in ticks
formatHoursToText(hrs) ==
    IF hrs <= 0 THEN <<"0", ":", "0", "0">>
    ELSE ToText(hrs \div TicksPerHour) \o <<":">>
            \o padStart(ToText(RoundedMinutes(hrs)), 2)

\* txt.split(":")
RECURSIVE SplitAtColonFrom(_, _)
SplitAtColonFrom(text, part) ==
    IF text = <<>> THEN <<part>>
    ELSE IF Head(text) = ":"
         THEN <<part>> \o SplitAtColonFrom(Tail(text), <<>>)
         ELSE SplitAtColonFrom(Tail(text), Append(part, Head(text)))

SplitAtColon(text) == SplitAtColonFrom(text, <<>>)

DigitValue(c) == CHOOSE d \in 0..9 : DigitChars[d + 1] = c

\* Number(text) for a text of digits: NaT stands for NaN
RECURSIVE NumberFrom(_, _)
NumberFrom(text, value) ==
    IF text = <<>> THEN value
    ELSE IF ~IsDigit(Head(text)) THEN NaT
         ELSE NumberFrom(Tail(text), value * 10 + DigitValue(Head(text)))

Number(text) == NumberFrom(text, 0)

\* a parser that reads the leading number of the text only
toMinutesLeadingNumber(txt) ==
    IF txt = <<>> THEN 0
    ELSE LET h == Number(SplitAtColon(txt)[1])
         IN  IF h # NaT THEN h * 60 ELSE 0

\* toMinutes(txt): "HH:MM" to minutes, 0 when either part is no number
toMinutes(txt) ==
    IF txt = <<>> THEN 0
    ELSE LET parts == SplitAtColon(txt)
             h == Number(parts[1])
             m == IF Len(parts) >= 2 THEN Number(parts[2]) ELSE NaT
         IN  IF h # NaT /\ m # NaT THEN h * 60 + m ELSE 0

\* the route builds the row of an agent whose average resolution time is
\* the given number of whole minutes
AgentRowBuilt(minutes) ==
    /\ perfResponse' = [agents |-> <<[
            agentId |-> "u1",
            avgResolutionHours |-> minutes * TicksPerMinute,
            avgResolutionText |->
                formatHoursToText(minutes * TicksPerMinute)]>>]
    /\ UNCHANGED <<yearlyRequest, yearlyResponse, perfRequest, perfAllTickets,
                   reconVars, tableVars, serverVars>>

DurationNext ==
    \E minutes \in 0..MaxDurationMinutes : AgentRowBuilt(minutes)

SpecDuration == IdleInit /\ [][DurationNext]_vars

\* C24: a whole number of minutes h*60+m, formatted as "H:MM" text and
\* parsed back to minutes, gives h*60+m again.
C24_DurationRoundTrip ==
    perfResponse # Null =>
        \A i \in 1..Len(perfResponse.agents) :
            LET row == perfResponse.agents[i]
            IN  toMinutes(row.avgResolutionText) * TicksPerMinute
                    = row.avgResolutionHours

\* 23 hours 59 minutes is formatted as "23:59" and parsed back to 1439
C24_Witness ==
    /\ perfResponse # Null
    /\ perfResponse.agents[1].avgResolutionHours = 1439 * TicksPerMinute
    /\ perfResponse.agents[1].avgResolutionText = <<"2", "3", ":", "5", "9">>
    /\ toMinutes(perfResponse.agents[1].avgResolutionText) = 1439

\* ---------------------------------------------------------------------------
\* The cached routes of the departments, the department ticket counts and
\* the department members
\* ---------------------------------------------------------------------------

\* the variables the three routes leave alone
OtherRoutesRest ==
    UNCHANGED <<clock, assigneeCachePayload, assigneeCacheTime,
                assigneeInFlightPromise, cachedActiveTickets,
                metricsCachePayload, metricsCacheTime, metricsInFlightPromise,
                agentIdToName, reconVars, tableVars, routeVars, limiterVars, pagingVars>>

\* the display names of the users of a department, in the order of the users
DepartmentUserNames(depId) ==
    LET users == SelectSeq(ZohoUsers, LAMBDA u : depId \in u.departmentIds)
    IN  [i \in 1..Len(users) |-> users[i].displayName]

\* { departments: departmentsWithUsers }
DepartmentsPayload ==
    [departments |->
        [i \in 1..Len(departmentList) |->
            [id |-> departmentList[i],
             agents |-> DepartmentUserNames(departmentList[i])]]]

\* the departments route without the check of the in-flight promise
DepartmentsRequestNoInFlightCheck ==
    /\ Len(requests) < MaxRequests
    /\ IF departmentsCachePayload # Null
            /\ clock - departmentsCacheTime < CACHE_TTL_MS
       THEN /\ requests' = Append(requests,
                   NewRequest("departments", NoQuery, "responded",
                              Ok(departmentsCachePayload)))
            /\ UNCHANGED departmentsInFlightPromise
       ELSE /\ requests' = Append(requests,
                   NewRequest("departments", NoQuery, "running", Null))
            /\ departmentsInFlightPromise' = Len(requests) + 1
    /\ UNCHANGED <<departmentsCachePayload, departmentsCacheTime,
                   deptTicketCachePayload, deptTicketCacheTime,
                   deptTicketInFlightPromise, deptMembersCachePayload,
                   deptMembersCacheTime, deptMembersInFlightPromise>>
    /\ OtherRoutesRest

\* GET /api/zoho-departments up to its first await
DepartmentsRequest ==
    /\ Len(requests) < MaxRequests
    /\ IF departmentsCachePayload # Null
            /\ clock - departmentsCacheTime < CACHE_TTL_MS
       THEN /\ requests' = Append(requests,
                   NewRequest("departments", NoQuery, "responded",
                              Ok(departmentsCachePayload)))
            /\ UNCHANGED departmentsInFlightPromise
       ELSE IF departmentsInFlightPromise # 0
       THEN /\ requests' = Append(requests,
                   NewRequest("departments", NoQuery, "awaiting", Null))
            /\ UNCHANGED departmentsInFlightPromise
       ELSE /\ requests' = Append(requests,
                   NewRequest("departments", NoQuery, "running", Null))
            /\ departmentsInFlightPromise' = Len(requests) + 1
    /\ UNCHANGED <<departmentsCachePayload, departmentsCacheTime,
                   deptTicketCachePayload, deptTicketCacheTime,
                   deptTicketInFlightPromise, deptMembersCachePayload,
                   deptMembersCacheTime, deptMembersInFlightPromise>>
    /\ OtherRoutesRest

\* the promise of the departments route returns, and the continuations
DepartmentsPayloadBuilt(r) ==
    /\ r \in 1..Len(requests)
    /\ requests[r].route = "departments"
    /\ requests[r].pc = "running"
    /\ departmentsCachePayload' = DepartmentsPayload
    /\ departmentsCacheTime' = clock
    /\ departmentsInFlightPromise' = 0
    /\ requests' = Settle("departments", r, Ok(DepartmentsPayload))
    /\ UNCHANGED <<deptTicketCachePayload, deptTicketCacheTime,
                   deptTicketInFlightPromise, deptMembersCachePayload,
                   deptMembersCacheTime, deptMembersInFlightPromise>>
    /\ OtherRoutesRest

\* getAccessToken or fetchAllUsers fails
DepartmentsFails(r) ==
    /\ r \in 1..Len(requests)
    /\ requests[r].route = "departments"
    /\ requests[r].pc = "running"
    /\ departmentsInFlightPromise' = 0
    /\ requests' = Settle("departments", r, ServerError)
    /\ UNCHANGED <<departmentsCachePayload, departmentsCacheTime,
                   deptTicketCachePayload, deptTicketCacheTime,
                   deptTicketInFlightPromise, deptMembersCachePayload,
                   deptMembersCacheTime, deptMembersInFlightPromise>>
    /\ OtherRoutesRest

\* GET /api/zoho-department-ticket-counts up to its first await
DeptTicketRequest ==
    /\ Len(requests) < MaxRequests
    /\ IF deptTicketCachePayload # Null
            /\ clock - deptTicketCacheTime < CACHE_TTL_MS
       THEN /\ requests' = Append(requests,
                   NewRequest("deptCounts", NoQuery, "responded",
                              Ok(deptTicketCachePayload)))
            /\ UNCHANGED deptTicketInFlightPromise
       ELSE IF deptTicketInFlightPromise # 0
       THEN /\ requests' = Append(requests,
                   NewRequest("deptCounts", NoQuery, "awaiting", Null))
            /\ UNCHANGED deptTicketInFlightPromise
       ELSE /\ requests' = Append(requests,
                   NewRequest("deptCounts", NoQuery, "running", Null))
            /\ deptTicketInFlightPromise' = Len(requests) + 1
    /\ UNCHANGED <<departmentsCachePayload, departmentsCacheTime,
                   departmentsInFlightPromise, deptTicketCachePayload,
                   deptTicketCacheTime, deptMembersCachePayload,
                   deptMembersCacheTime, deptMembersInFlightPromise>>
    /\ OtherRoutesRest

\* the promise of the department ticket counts returns, and the continuations
DeptTicketPayloadBuilt(r) ==
    /\ r \in 1..Len(requests)
    /\ requests[r].route = "deptCounts"
    /\ requests[r].pc = "running"
    /\ LET payload ==
            [departmentTicketCounts |->
                departmentTicketCounts(fetchAllTickets(<<>>, ""))]
       IN  /\ deptTicketCachePayload' = payload
           /\ deptTicketCacheTime' = clock
           /\ deptTicketInFlightPromise' = 0
           /\ requests' = Settle("deptCounts", r, Ok(payload))
    /\ UNCHANGED <<departmentsCachePayload, departmentsCacheTime,
                   departmentsInFlightPromise, deptMembersCachePayload,
                   deptMembersCacheTime, deptMembersInFlightPromise>>
    /\ OtherRoutesRest

\* the failure of the department ticket counts with the promise left in
\* its slot
DeptTicketFailsKeepsPromise(r) ==
    /\ r \in 1..Len(requests)
    /\ requests[r].route = "deptCounts"
    /\ requests[r].pc = "running"
    /\ requests' = Settle("deptCounts", r, ServerError)
    /\ UNCHANGED deptCacheVars
    /\ OtherRoutesRest

\* getAccessToken or fetchAllTickets fails
DeptTicketFails(r) ==
    /\ r \in 1..Len(requests)
    /\ requests[r].route = "deptCounts"
    /\ requests[r].pc = "running"
    /\ deptTicketInFlightPromise' = 0
    /\ requests' = Settle("deptCounts", r, ServerError)
    /\ UNCHANGED <<departmentsCachePayload, departmentsCacheTime,
                   departmentsInFlightPromise, deptTicketCachePayload,
                   deptTicketCacheTime, deptMembersCachePayload,
                   deptMembersCacheTime, deptMembersInFlightPromise>>
    /\ OtherRoutesRest

\* the name of the members route of one department in the log of requests
MembersRoute(departmentId) ==
    IF departmentId = "d1" THEN "members/d1" ELSE "members/d2"

\* getAllAgentsForDepartment(departmentId): the agents the upstream lists
\* for the department
getAllAgentsForDepartment(departmentId) ==
    SelectSeq(ZohoUsers, LAMBDA u : departmentId \in u.departmentIds)

\* the members route with a cache that never expires
DeptMembersRequestNoTtl(departmentId) ==
    /\ Len(requests) < MaxRequests
    /\ IF deptMembersCachePayload[departmentId] # Null
       THEN /\ requests' = Append(requests,
                   NewRequest(MembersRoute(departmentId), NoQuery, "responded",
                              Ok(deptMembersCachePayload[departmentId])))
            /\ UNCHANGED deptMembersInFlightPromise
       ELSE IF deptMembersInFlightPromise[departmentId] # 0
       THEN /\ requests' = Append(requests,
                   NewRequest(MembersRoute(departmentId), NoQuery, "awaiting",
                              Null))
            /\ UNCHANGED deptMembersInFlightPromise
       ELSE /\ requests' = Append(requests,
                   NewRequest(MembersRoute(departmentId), NoQuery, "running",
                              Null))
            /\ deptMembersInFlightPromise' =
                   [deptMembersInFlightPromise EXCEPT
                       ![departmentId] = Len(requests) + 1]
    /\ UNCHANGED <<departmentsCachePayload, departmentsCacheTime,
                   departmentsInFlightPromise, deptTicketCachePayload,
                   deptTicketCacheTime, deptTicketInFlightPromise,
                   deptMembersCachePayload, deptMembersCacheTime>>
    /\ OtherRoutesRest

\* GET /api/department-members/:departmentId up to its first await
DeptMembersRequest(departmentId) ==
    /\ Len(requests) < MaxRequests
    /\ IF /\ deptMembersCachePayload[departmentId] # Null
          /\ deptMembersCacheTime[departmentId] # 0
          /\ clock - deptMembersCacheTime[departmentId] < CACHE_TTL_MS
       THEN /\ requests' = Append(requests,
                   NewRequest(MembersRoute(departmentId), NoQuery, "responded",
                              Ok(deptMembersCachePayload[departmentId])))
            /\ UNCHANGED deptMembersInFlightPromise
       ELSE IF deptMembersInFlightPromise[departmentId] # 0
       THEN /\ requests' = Append(requests,
                   NewRequest(MembersRoute(departmentId), NoQuery, "awaiting",
                              Null))
            /\ UNCHANGED deptMembersInFlightPromise
       ELSE /\ requests' = Append(requests,
                   NewRequest(MembersRoute(departmentId), NoQuery, "running",
                              Null))
            /\ deptMembersInFlightPromise' =
                   [deptMembersInFlightPromise EXCEPT
                       ![departmentId] = Len(requests) + 1]
    /\ UNCHANGED <<departmentsCachePayload, departmentsCacheTime,
                   departmentsInFlightPromise, deptTicketCachePayload,
                   deptTicketCacheTime, deptTicketInFlightPromise,
                   deptMembersCachePayload, deptMembersCacheTime>>
    /\ OtherRoutesRest

\* the promise of the members of one department returns, and the
\* continuations
DeptMembersPayloadBuilt(r, departmentId) ==
    /\ r \in 1..Len(requests)
    /\ requests[r].route = MembersRoute(departmentId)
    /\ requests[r].pc = "running"
    /\ LET payload == [members |-> getAllAgentsForDepartment(departmentId)]
       IN  /\ deptMembersCachePayload' =
                   [deptMembersCachePayload EXCEPT ![departmentId] = payload]
           /\ deptMembersCacheTime' =
                   [deptMembersCacheTime EXCEPT ![departmentId] = clock]
           /\ deptMembersInFlightPromise' =
                   [deptMembersInFlightPromise EXCEPT ![departmentId] = 0]
           /\ requests' = Settle(MembersRoute(departmentId), r, Ok(payload))
    /\ UNCHANGED <<departmentsCachePayload, departmentsCacheTime,
                   departmentsInFlightPromise, deptTicketCachePayload,
                   deptTicketCacheTime, deptTicketInFlightPromise>>
    /\ OtherRoutesRest

\* getAccessToken or getAllAgentsForDepartment fails
DeptMembersFails(r, departmentId) ==
    /\ r \in 1..Len(requests)
    /\ requests[r].route = MembersRoute(departmentId)
    /\ requests[r].pc = "running"
    /\ deptMembersInFlightPromise' =
            [deptMembersInFlightPromise EXCEPT ![departmentId] = 0]
    /\ requests' = Settle(MembersRoute(departmentId), r, ServerError)
    /\ UNCHANGED <<departmentsCachePayload, departmentsCacheTime,
                   departmentsInFlightPromise, deptTicketCachePayload,
                   deptTicketCacheTime, deptTicketInFlightPromise,
                   deptMembersCachePayload, deptMembersCacheTime>>
    /\ OtherRoutesRest

\* ---------------------------------------------------------------------------
\* The five cached routes on one server
\* ---------------------------------------------------------------------------

\* the server after an assignees computation that fetched the tickets and
\* then failed: the active tickets are kept, nothing is cached
CachesInit ==
    /\ zohoActive = UpstreamTickets
    /\ zohoArchived = <<>>
    /\ archRows = <<>>
    /\ archivedCache = <<>>
    /\ reRows = <<>>
    /\ rpc = "fetch"
    /\ TableIdle
    /\ RouteIdle
    /\ clock = ServerStart
    /\ requests = <<>>
    /\ assigneeCachePayload = Null
    /\ assigneeCacheTime = 0
    /\ assigneeInFlightPromise = 0
    /\ cachedActiveTickets =
            SelectSeq(UpstreamTickets,
                      LAMBDA t : ToLowerCase(t.status) \in activeStatuses)
    /\ metricsCachePayload = Null
    /\ metricsCacheTime = 0
    /\ metricsInFlightPromise = 0
    /\ agentIdToName = <<>>
    /\ departmentsCachePayload = Null
    /\ departmentsCacheTime = 0
    /\ departmentsInFlightPromise = 0
    /\ deptTicketCachePayload = Null
    /\ deptTicketCacheTime = 0
    /\ deptTicketInFlightPromise = 0
    /\ deptMembersCachePayload = [d \in DepartmentIds |-> Null]
    /\ deptMembersCacheTime = [d \in DepartmentIds |-> 0]
    /\ deptMembersInFlightPromise = [d \in DepartmentIds |-> 0]
    /\ limiterJobs = <<>>
    /\ limiterSinceLaunch = -1
    /\ fetchPc = "idle"
    /\ from = 0
    /\ allTicketsLength = 0
    /\ pageRequests = 0
    /\ largestBatch = 0

\* all tickets, and the tickets of an agent who has none
CachesQueries ==
    { NoQuery, [departmentIds |-> <<>>, agentId |-> "u9"] }

CachesNext ==
    \/ \E query \in CachesQueries : AssigneesRequest(query)
    \/ \E r \in 1..MaxRequests : AssigneesTicketsFetched(r)
    \/ \E r \in 1..MaxRequests : AssigneesPayloadBuilt(r, 0)
    \/ \E r \in 1..MaxRequests : AssigneesFails(r)
    \/ MetricsRequest
    \/ \E r \in 1..MaxRequests : MetricsRowsFetched(r, {})
    \/ \E r \in 1..MaxRequests : MetricsFails(r)
    \/ DepartmentsRequest
    \/ \E r \in 1..MaxRequests : DepartmentsPayloadBuilt(r)
    \/ \E r \in 1..MaxRequests : DepartmentsFails(r)
    \/ DeptTicketRequest
    \/ \E r \in 1..MaxRequests : DeptTicketPayloadBuilt(r)
    \/ \E r \in 1..MaxRequests : DeptTicketFails(r)
    \/ \E d \in DepartmentIds : DeptMembersRequest(d)
    \/ \E r \in 1..MaxRequests, d \in DepartmentIds :
            DeptMembersPayloadBuilt(r, d)
    \/ \E r \in 1..MaxRequests, d \in DepartmentIds : DeptMembersFails(r, d)

SpecCaches == CachesInit /\ [][CachesNext]_vars

\* no computation is in progress
Quiet == \A r \in 1..Len(requests) : requests[r].pc = "responded"

\* the same server over the minutes: the clock moves between computations
CachesTtlNext ==
    \/ \E query \in CachesQueries : AssigneesRequest(query)
    \/ \E r \in 1..MaxRequests : AssigneesTicketsFetched(r)
    \/ \E r \in 1..MaxRequests : AssigneesPayloadBuilt(r, 0)
    \/ MetricsRequest
    \/ \E r \in 1..MaxRequests : MetricsRowsFetched(r, {})
    \/ \E r \in 1..MaxRequests : MetricsFails(r)
    \/ DepartmentsRequest
    \/ \E r \in 1..MaxRequests : DepartmentsPayloadBuilt(r)
    \/ DeptTicketRequest
    \/ \E r \in 1..MaxRequests : DeptTicketPayloadBuilt(r)
    \/ \E d \in DepartmentIds : DeptMembersRequest(d)
    \/ \E r \in 1..MaxRequests, d \in DepartmentIds :
            DeptMembersPayloadBuilt(r, d)
    \/ Quiet /\ Tick

SpecCachesTtl == CachesInit /\ [][CachesTtlNext]_vars

\* the cached endpoints, the members of each department being one
CachedRoutes ==
    {"assignees", "metrics", "departments", "deptCounts",
     "members/d1", "members/d2"}

InFlightOf(route) ==
    CASE route = "assignees" -> assigneeInFlightPromise
      [] route = "metrics" -> metricsInFlightPromise
      [] route = "departments" -> departmentsInFlightPromise
      [] route = "deptCounts" -> deptTicketInFlightPromise
      [] route = "members/d1" -> deptMembersInFlightPromise["d1"]
      [] route = "members/d2" -> deptMembersInFlightPromise["d2"]

CachePayloadOf(route) ==
    CASE route = "assignees" -> assigneeCachePayload
      [] route = "metrics" -> metricsCachePayload
      [] route = "departments" -> departmentsCachePayload
      [] route = "deptCounts" -> deptTicketCachePayload
      [] route = "members/d1" -> deptMembersCachePayload["d1"]
      [] route = "members/d2" -> deptMembersCachePayload["d2"]

CacheTimeOf(route) ==
    CASE route = "assignees" -> assigneeCacheTime
      [] route = "metrics" -> metricsCacheTime
      [] route = "departments" -> departmentsCacheTime
      [] route = "deptCounts" -> deptTicketCacheTime
      [] route = "members/d1" -> deptMembersCacheTime["d1"]
      [] route = "members/d2" -> deptMembersCacheTime["d2"]

\* the requests that run the computation of a route
Computing(route) ==
    {r \in 1..Len(requests) :
        requests[r].route = route /\ requests[r].pc \in {"running", "building"}}

\* the requests that wait for the computation of a route
Awaiting(route) ==
    {r \in 1..Len(requests) :
        requests[r].route = route /\ requests[r].pc = "awaiting"}

\* a step in which a request to the route arrives
Arrives(route) ==
    /\ Len(requests') = Len(requests) + 1
    /\ requests'[Len(requests')].route = route

\* the request that arrives in the step
Arrival == requests'[Len(requests')]

\* at most one computation per endpoint, and the in-flight slot names it
OneComputation ==
    \A route \in CachedRoutes :
        /\ Cardinality(Computing(route)) <= 1
        /\ Computing(route) # {} => Computing(route) = {InFlightOf(route)}

\* a request that waits is answered with what the computation it waited for
\* answers
WaitersShareTheAnswer ==
    \A route \in CachedRoutes : \A i \in Awaiting(route) :
        requests'[i].pc = "responded" =>
            \E r \in Computing(route) :
                /\ requests'[r].pc = "responded"
                /\ requests'[i].response = requests'[r].response

FailureStep(route) ==
    \E r \in Computing(route) :
        /\ requests'[r].pc = "responded"
        /\ requests'[r].response.status = 500

\* when a computation fails every waiting request answers 500, the cache
\* keeps its payload and its time, and the in-flight slot is cleared
FailureHandled ==
    \A route \in CachedRoutes :
        FailureStep(route) =>
            /\ \A i \in Awaiting(route) :
                    /\ requests'[i].pc = "responded"
                    /\ requests'[i].response.status = 500
            /\ CachePayloadOf(route)' = CachePayloadOf(route)
            /\ CacheTimeOf(route)' = CacheTimeOf(route)
            /\ InFlightOf(route)' = 0

\* the requests of a route, in the log
RequestsOf(route) ==
    {r \in 1..Len(requests) : requests[r].route = route}

\* the latest request of the route was answered with the failure of a
\* computation
LastFailed(route) ==
    /\ RequestsOf(route) # {}
    /\ LET last == CHOOSE r \in RequestsOf(route) :
                        \A q \in RequestsOf(route) : q <= r
       IN  /\ requests[last].pc = "responded"
           /\ requests[last].response.status = 500

\* the in-flight slot is empty exactly when no computation is in progress,
\* and no request waits without one
SlotFollowsComputation ==
    \A route \in CachedRoutes :
        /\ InFlightOf(route) = 0 <=> Computing(route) = {}
        /\ Awaiting(route) # {} => Computing(route) # {}

C28_CreatedIsResolvedPlusPending ==
    (perfRequest # Null /\ UniqueIds(zohoActive) /\ UniqueIds(zohoArchived)) =>
        \A k \in DOMAIN perfResponse.agents :
            perfResponse.agents[k].ticketsCreated =
                perfResponse.agents[k].ticketsResolved
                    + perfResponse.agents[k].pendingCount

\* the tickets of a request with a known age and an active status
AgedActive(tickets) ==
    SelectSeq(tickets,
        LAMBDA t : t.createdTime # 0 /\ NormalizedStatus(t) \in StatusKeys)

\* how often the lists of the payload for the buckets hold the ticket
RECURSIVE Occurrences(_, _)
Occurrences(list, id) ==
    IF list = <<>> THEN 0
    ELSE (IF Head(list) = id THEN 1 ELSE 0) + Occurrences(Tail(list), id)

TimesListed(payload, id, buckets) ==
    SumOver([i \in 1..Len(payload.members) |->
        LET byDept == payload.members[i].departmentAgingCounts
        IN  SumOver([k \in (DOMAIN byDept) \X StatusKeys \X buckets |->
                Occurrences(byDept[k[1]].Tickets[<<k[2], k[3]>>], id)])])

\* the sum of the member's counts for the buckets
TimesCounted(member, buckets) ==
    SumOver([k \in StatusKeys \X buckets |-> member.tickets.age[k]])

\* C29: every ticket with a known non-negative age and an active status is
\* in exactly one fine and exactly one coarse list of the per-department
\* ticket lists, and is counted in exactly one fine and exactly one coarse
\* bucket of the counts of the agent it is assigned to.
C29_ExactlyOneBucket ==
    \A r \in 1..Len(requests) :
        (/\ requests[r].route = "assignees"
         /\ requests[r].pc = "responded"
         /\ requests[r].response.status = 200
         /\ requests[r].tickets # <<>>
         /\ UniqueIds(requests[r].tickets)) =>
            LET payload == requests[r].response.body
                aged == AgedActive(requests[r].tickets)
            IN  /\ \A i \in 1..Len(aged) :
                        /\ TimesListed(payload, aged[i].id, FineBuckets) = 1
                        /\ TimesListed(payload, aged[i].id, CoarseBuckets) = 1
                /\ \A i \in 1..Len(payload.members) :
                        LET member == payload.members[i]
                            mine == CountWhere(aged,
                                        LAMBDA t : t.assigneeId = member.id)
                        IN  member.id # "unassigned" =>
                                /\ TimesCounted(member, FineBuckets) = mine
                                /\ TimesCounted(member, CoarseBuckets) = mine

\* ------------------------------------------------ fetchAllArchivedTickets
\* the paging loop of fetchAllArchivedTickets for one department. The tickets
\* of a page play no part in the loop, only their number does, so allTickets
\* is kept as its length.

\* the longest page the upstream returns
MaxBatch == 101

limit == 100

lastFrom == 4900

\* the lengths of response.data.data: no tickets, a short page, a full page,
\* and a page longer than asked for
BatchLengths == {0, limit - 1, limit, MaxBatch}

PagingRest ==
    UNCHANGED <<reconVars, tableVars, routeVars, clock, requests,
                assigneeCachePayload, assigneeCacheTime, assigneeInFlightPromise,
                cachedActiveTickets, metricsCachePayload, metricsCacheTime,
                metricsInFlightPromise, agentIdToName, deptCacheVars, limiterVars>>

\* the call up to its first await: the request for the page at offset 0
ArchivedFetchCalled ==
    /\ fetchPc = "idle"
    /\ from' = 0
    /\ allTicketsLength' = 0
    /\ pageRequests' = 1
    /\ fetchPc' = "awaiting"
    /\ UNCHANGED largestBatch
    /\ PagingRest

\* the loop goes on while the offset is at most lastFrom
PageReturnsPastLastOffset(batchLength) ==
    /\ fetchPc = "awaiting"
    /\ allTicketsLength' = allTicketsLength + batchLength
    /\ largestBatch' = IF batchLength > largestBatch THEN batchLength ELSE largestBatch
    /\ IF batchLength < limit \/ from > lastFrom
       THEN /\ fetchPc' = "returned"
            /\ UNCHANGED <<from, pageRequests>>
       ELSE /\ from' = from + limit
            /\ pageRequests' = pageRequests + 1
            /\ UNCHANGED fetchPc
    /\ PagingRest

\* a page request returns: the rest of the loop body, and either the return
\* or the request for the next page
PageReturns(batchLength) ==
    /\ fetchPc = "awaiting"
    /\ allTicketsLength' = allTicketsLength + batchLength
    /\ largestBatch' = IF batchLength > largestBatch THEN batchLength ELSE largestBatch
    /\ IF batchLength < limit \/ from >= lastFrom
       THEN /\ fetchPc' = "returned"
            /\ UNCHANGED <<from, pageRequests>>
       ELSE /\ from' = from + limit
            /\ pageRequests' = pageRequests + 1
            /\ UNCHANGED fetchPc
    /\ PagingRest

\* a page request fails after its retries: the await throws
PageFails ==
    /\ fetchPc = "awaiting"
    /\ fetchPc' = "rejected"
    /\ UNCHANGED <<from, allTicketsLength, pageRequests, largestBatch>>
    /\ PagingRest

PagingNext ==
    \/ ArchivedFetchCalled
    \/ \E batchLength \in BatchLengths : PageReturns(batchLength)
    \/ PageFails

\* every page request gets its answer
SpecPaging == IdleInit /\ [][PagingNext]_vars /\ WF_vars(PagingNext)

FetchEnds == (fetchPc = "awaiting") ~> (fetchPc \in {"returned", "rejected"})

\* the call returns in the step in which a page shorter than limit arrives or
\* a page arrives while the offset is lastFrom or more, and in no other
StopsWhenClaimed ==
    [][(fetchPc = "awaiting" /\ fetchPc' # "rejected") =>
          ((fetchPc' = "returned") <=>
              (\/ allTicketsLength' - allTicketsLength < 100
               \/ from >= 4900))]_vars

AtMostFiftyPageRequests == pageRequests <= 50 /\ from <= 4900

AtMostFiveThousandTickets == fetchPc = "returned" => allTicketsLength <= 5000

\* C30 as claimed: the call ends, it returns at the first page of fewer than
\* 100 tickets or when the offset has reached 4900, it issues at most 50 page
\* requests and it returns at most 5000 tickets whatever the pages hold.
C30_PagingBounded ==
    /\ FetchEnds
    /\ StopsWhenClaimed
    /\ []AtMostFiftyPageRequests
    /\ []AtMostFiveThousandTickets

\* C30: the call ends, it returns at the first page of fewer than 100
\* tickets or when the offset has reached 4900, it issues at most 50 page
\* requests whatever the pages hold, and it returns at most 5000 tickets
\* when no page holds more than 100.
C30_PagingBoundedForHonestPages ==
    /\ FetchEnds
    /\ StopsWhenClaimed
    /\ []AtMostFiftyPageRequests
    /\ [](largestBatch <= 100 => AtMostFiveThousandTickets)

\* fifty full pages were fetched and returned
C30_Witness ==
    /\ fetchPc = "returned"
    /\ pageRequests = 50
    /\ from = 4900
    /\ largestBatch = 100
    /\ allTicketsLength = 5000

============================================================================
